---- MODULE Spec2Model ----
(***************************************************************************)
(* Verification model of gavin (elifry/gavin): the repository              *)
(* synchroniser (src/src/git_manager.rs), the repository store             *)
(* (src/src/database.rs) and the concurrent fan-outs of src/src/lib.rs and *)
(* src/src/cli_handler.rs.                                                 *)
(*                                                                         *)
(* git is an external program.  A call of it is modelled by its exit       *)
(* status and its effect on the local mirror, both functions of the mirror *)
(* and of the environment of the call (the branches the remote has, the    *)
(* remote's revision, and at most one command kind that fails).            *)
(***************************************************************************)
EXTENDS Integers, Sequences, FiniteSets, TLC

VARIABLES mirrors,   \* temp_repos/<repo_name>: the local mirror of each directory
          db,        \* gavin.db: git_credentials and repositories tables
          last,      \* the last synchroniser call: its trace and result
          cores,     \* std::thread::available_parallelism()
          op,        \* the command being run and its flag (--no-update, --new)
          pc,        \* where the command's own code is
          repos,     \* the list the current fan-out iterates over
          fan,       \* the current fan-out: "sync", "onboard", "search", "usage"
          units,     \* the spawned task of each list entry: state and result
          nxt,       \* index of the next entry the spawn loop handles
          permits,   \* available permits of the fan-out's semaphore
          joined,    \* number of handles (or channel results) consumed
          result,    \* what the command returned
          valid,     \* onboarding: the candidates that passed test_connection
          failed,    \* onboarding: failed_repos
          success,   \* onboarding: success_urls
          scanned,   \* the repositories whose pipeline files were scanned
          cands,     \* onboarding: repo_urls, the candidates as given
          tested,    \* onboarding: the connection tests run so far, in order
          shown,     \* the per-repository results, in the order they are shown
          states,    \* gavin.db: the valid_states table
          tree,      \* the pipeline files of each repository's mirror
          issues,    \* check-tasks: the TaskIssues it returned
          cmp,       \* the last version_eq call: its arguments and result
          call,      \* the last call on the valid_states table
          walk       \* find_pipeline_files: the walker, the channel, the receiver

syncvars == <<mirrors, db, last>>

batchvars == <<cores, op, pc, repos, fan, units, nxt, permits, joined, result,
               valid, failed, success, scanned, cands, tested, shown>>

histvars == <<cands, tested, shown>>

checkvars == <<states, tree, issues, cmp, call, walk>>

vars == <<mirrors, db, last, cores, op, pc, repos, fan, units, nxt, permits,
          joined, result, valid, failed, success, scanned, cands, tested,
          shown, states, tree, issues, cmp, call, walk>>

----------------------------------------------------------------------------
(* Bounds and inputs *)

MaxRev == 2

MaxRepos == 5

MaxCores == 2

MaxCandidates == 3

BranchSet == {"develop", "main", "master"}

\* A repository URL is the sequence of its '/'-separated segments.
UrlPool == << <<"host", "org", "r1">>, <<"host", "org", "r2">>,
              <<"host", "org", "r3">>, <<"host", "org", "r4">>,
              <<"host", "org", "r5">>, <<"host", "org", "r6">>,
              <<"host", "org", "r7">> >>

\* Distinct URLs that are neither in name order nor in URL order, two of which
\* have the same last segment.
Mixed == << <<"host", "org", "r2">>, <<"host", "org", "r1">>,
            <<"host", "fork", "r1">> >>

AllUrls == {UrlPool[i] : i \in 1..Len(UrlPool)} \cup {Mixed[i] : i \in 1..Len(Mixed)}

\* The segments of the URLs in the byte order of str::cmp.
SegmentOrder == <<"fork", "host", "org", "r1", "r2", "r3", "r4", "r5", "r6", "r7">>

Rank(seg) == CHOOSE i \in 1..Len(SegmentOrder) : SegmentOrder[i] = seg

\* a.cmp(&b) == Ordering::Less on two URLs
RECURSIVE url_lt(_, _)
url_lt(a, b) ==
  IF a = <<>> THEN b # <<>>
  ELSE IF b = <<>> THEN FALSE
  ELSE IF Head(a) = Head(b) THEN url_lt(Tail(a), Tail(b))
  ELSE Rank(Head(a)) < Rank(Head(b))

\* the insertion of u into the sorted list l, after the entries equal to it
RECURSIVE insert_sorted(_, _)
insert_sorted(l, u) ==
  IF l = <<>> THEN <<u>>
  ELSE IF url_lt(u, Head(l)) THEN <<u>> \o l
  ELSE <<Head(l)>> \o insert_sorted(Tail(l), u)

\* results.sort_by(|a, b| a.repo.cmp(&b.repo)): a stable sort on the URL
RECURSIVE sort_by_repo(_)
sort_by_repo(l) ==
  IF l = <<>> THEN <<>>
  ELSE insert_sorted(sort_by_repo(SubSeq(l, 1, Len(l) - 1)), l[Len(l)])

\* The repositories table of a store, in rowid order.
StoreLists == {SubSeq(UrlPool, 1, n) : n \in 0..MaxRepos} \cup {Mixed}

\* The value of --add-multiple-repos, split at ','.
CandidateLists == {SubSeq(UrlPool, 1, k) : k \in 1..MaxCandidates} \cup {Mixed}

Faults == {"mkdir", "init", "config", "write", "remote_add", "checkout_b",
           "rev_parse", "checkout", "reset", "net"}

\* The environment of one synchroniser call: the branches the remote has, the
\* revision they are at, and the command kind that fails ("none": none).
EnvSet ==
  {[heads |-> h, rev |-> 1, fault |-> "none"] : h \in SUBSET BranchSet}
  \cup
  {[heads |-> BranchSet, rev |-> r, fault |-> "none"] : r \in 2..MaxRev}
  \cup
  {[heads |-> BranchSet, rev |-> 1, fault |-> f] : f \in Faults}

----------------------------------------------------------------------------
(* GitManager::new *)

\* repo_url.split('/').last()
repo_name(url) == url[Len(url)]

DirNames == {repo_name(u) : u \in AllUrls}

\* repo_dir = cwd/temp_repos/<repo_name>
repo_dir(url) == repo_name(url)

----------------------------------------------------------------------------
(* The local mirror: the directory, the repository in it (git), the        *)
(* core.sparseCheckout setting, the lines of .git/info/sparse-checkout,    *)
(* the remote origin, the remote-tracking branches and the revision they   *)
(* were fetched at (frev), the local branches, HEAD ("unborn", "detached"  *)
(* or a branch), the revision checked out (hrev, 0 when there is none) and *)
(* whether the working tree has local modifications.                       *)

Absent ==
  [dir |-> FALSE, git |-> FALSE, sparse |-> FALSE, patterns |-> <<>>,
   remote |-> FALSE, tracking |-> {}, frev |-> 0, locals |-> {},
   head |-> "unborn", hrev |-> 0, dirty |-> FALSE]

\* sparse_patterns of clone_repo
sparse_patterns_clone ==
  << "*.yml", "*.yaml", "**/azure-pipelines.yml", "**/azure-pipelines.yaml",
     "**/*.pipeline.yml", "**/*.pipeline.yaml", ".github/workflows/*.yml",
     ".github/workflows/*.yaml", ".gitlab-ci.yml" >>

\* sparse_patterns of update_repo
sparse_patterns_update ==
  << "*.yml", "*.yaml", "**/azure-pipelines.yml", "**/azure-pipelines.yaml",
     "**/*.pipeline.yml", "**/*.pipeline.yaml", ".github/workflows/*.yml",
     ".github/workflows/*.yaml", ".gitlab-ci.yml" >>

----------------------------------------------------------------------------
(* Running one command of a procedure.  st.res = "run" while the procedure *)
(* is still executing; a command after a return is not run.                *)

Start(m) == [m |-> m, log |-> <<>>, res |-> "run", ok |-> TRUE, br |-> "none"]

\* `checked`: the code returns Err when the command fails.
Exec(st, kind, cmd, arg, ok, m2, checked) ==
  IF st.res # "run" THEN st
  ELSE [m   |-> IF ok THEN m2 ELSE st.m,
        log |-> Append(st.log, [kind |-> kind, cmd |-> cmd, arg |-> arg, ok |-> ok]),
        res |-> IF ~ok /\ checked THEN "err" ELSE "run",
        ok  |-> ok,
        br  |-> st.br]

Return(st, r) == IF st.res # "run" THEN st ELSE [st EXCEPT !.res = r]

SetBranch(st, b) == IF st.res # "run" THEN st ELSE [st EXCEPT !.br = b]

\* tokio::fs::create_dir_all(&self.repo_dir).await?
create_dir_all(st, e) ==
  Exec(st, "fs", "create_dir_all", "", e.fault # "mkdir",
       [st.m EXCEPT !.dir = TRUE], TRUE)

\* git init
git_init(st, e) ==
  Exec(st, "git", "init", "", st.m.dir /\ e.fault # "init",
       [st.m EXCEPT !.git = TRUE], TRUE)

\* git config core.sparseCheckout true
git_config_sparse(st, e) ==
  Exec(st, "git", "config", "core.sparseCheckout", st.m.git /\ e.fault # "config",
       [st.m EXCEPT !.sparse = TRUE], TRUE)

\* Variant: the pattern file is appended to instead of overwritten.
write_sparse_checkout_append(st, e, pats, mkinfo) ==
  Exec(st, "fs", "write", "sparse-checkout",
       st.m.dir /\ (mkinfo \/ st.m.git) /\ e.fault # "write",
       [st.m EXCEPT !.patterns = @ \o pats], TRUE)

\* write(.git/info/sparse-checkout), after create_dir_all(.git/info) when
\* mkinfo
write_sparse_checkout(st, e, pats, mkinfo) ==
  Exec(st, "fs", "write", "sparse-checkout",
       st.m.dir /\ (mkinfo \/ st.m.git) /\ e.fault # "write",
       [st.m EXCEPT !.patterns = pats], TRUE)

\* git remote add origin <url>
git_remote_add(st, e) ==
  Exec(st, "git", "remote_add", "origin",
       st.m.git /\ ~st.m.remote /\ e.fault # "remote_add",
       [st.m EXCEPT !.remote = TRUE], TRUE)

\* git fetch --depth=1 origin <branch>
try_fetch_branch(st, e, b) ==
  Exec(st, "git", "fetch", b,
       st.m.git /\ st.m.remote /\ b \in e.heads /\ e.fault # "net",
       [st.m EXCEPT !.tracking = @ \cup {b}, !.frev = e.rev], FALSE)

\* git checkout -b <branch> origin/<branch>; the exit status is not looked at
git_checkout_b(st, e) ==
  Exec(st, "git", "checkout_b", st.br,
       /\ st.m.git /\ e.fault # "checkout_b"
       /\ st.br \in st.m.tracking /\ st.br \notin st.m.locals,
       [st.m EXCEPT !.locals = @ \cup {st.br}, !.head = st.br,
                    !.hrev = st.m.frev, !.dirty = FALSE],
       FALSE)

\* git rev-parse --abbrev-ref HEAD: the trimmed standard output
rev_parse_output(m, e) ==
  IF ~m.git \/ e.fault = "rev_parse" THEN ""
  ELSE IF m.head \in BranchSet /\ m.hrev > 0 THEN m.head
  ELSE "HEAD"

git_rev_parse(st, e) ==
  Exec(st, "git", "rev_parse", "HEAD",
       st.m.git /\ st.m.hrev > 0 /\ e.fault # "rev_parse", st.m, FALSE)

\* git checkout <branch>: an existing local branch, or a new one tracking
\* origin/<branch>
try_checkout_branch(st, e, b) ==
  Exec(st, "git", "checkout", b,
       /\ st.m.git /\ e.fault # "checkout"
       /\ (b \in st.m.locals \/ b \in st.m.tracking),
       [st.m EXCEPT !.locals = @ \cup {b}, !.head = b,
                    !.hrev = IF b \in st.m.locals THEN st.m.hrev ELSE st.m.frev,
                    !.dirty = FALSE],
       FALSE)

\* Variant: the exit status of the reset is not looked at.
git_reset_hard_unchecked(st, e) ==
  Exec(st, "git", "reset", "HEAD",
       st.m.git /\ st.m.hrev > 0 /\ e.fault # "reset",
       [st.m EXCEPT !.dirty = FALSE], FALSE)

\* git reset --hard HEAD
git_reset_hard(st, e) ==
  Exec(st, "git", "reset", "HEAD",
       st.m.git /\ st.m.hrev > 0 /\ e.fault # "reset",
       [st.m EXCEPT !.dirty = FALSE], TRUE)

\* git pull --force
git_pull_force(st, e) ==
  Exec(st, "git", "pull", "",
       /\ st.m.git /\ st.m.remote /\ e.fault # "net"
       /\ st.m.head \in BranchSet /\ st.m.head \in e.heads,
       [st.m EXCEPT !.tracking = @ \cup e.heads, !.frev = e.rev,
                    !.hrev = e.rev],
       TRUE)

\* git ls-remote --heads <url>
git_ls_remote(st, e) ==
  Exec(st, "git", "ls_remote", "", e.fault # "net", st.m, TRUE)

----------------------------------------------------------------------------
(* GitManager *)

Finish(st) == [st EXCEPT !.res = IF @ = "run" THEN "ok" ELSE @]

\* Variant: main is tried before develop.
fetch_default_branch_main_first(st, e) ==
  LET f1 == try_fetch_branch(st, e, "main")
      f2 == try_fetch_branch(f1, e, "develop")
      f3 == try_fetch_branch(f2, e, "master")
  IN  IF f1.ok THEN SetBranch(f1, "main")
      ELSE IF f2.ok THEN SetBranch(f2, "develop")
      ELSE IF f3.ok THEN SetBranch(f3, "master")
      ELSE Return(f3, "err")

\* Variant: master is assumed when no fetch succeeded.
fetch_default_branch_assume_master(st, e) ==
  LET f1 == try_fetch_branch(st, e, "develop")
      f2 == try_fetch_branch(f1, e, "main")
      f3 == try_fetch_branch(f2, e, "master")
  IN  IF f1.ok THEN SetBranch(f1, "develop")
      ELSE IF f2.ok THEN SetBranch(f2, "main")
      ELSE SetBranch(f3, "master")

\* The branch fallback of clone_repo: develop, then main, then master.
fetch_default_branch(st, e) ==
  LET f1 == try_fetch_branch(st, e, "develop")
      f2 == try_fetch_branch(f1, e, "main")
      f3 == try_fetch_branch(f2, e, "master")
  IN  IF f1.ok THEN SetBranch(f1, "develop")
      ELSE IF f2.ok THEN SetBranch(f2, "main")
      ELSE IF f3.ok THEN SetBranch(f3, "master")
      ELSE Return(f3, "err")

\* Variant: the remote is added and the branch fetched before sparse checkout
\* is set up.
clone_repo_fetch_first(m, e) ==
  LET s1 == create_dir_all(Start(m), e)
      s2 == git_init(s1, e)
      s3 == git_remote_add(s2, e)
      s4 == fetch_default_branch(s3, e)
      s5 == git_config_sparse(s4, e)
      s6 == write_sparse_checkout(s5, e, sparse_patterns_clone, TRUE)
      s7 == git_checkout_b(s6, e)
  IN  Finish(s7)

clone_repo(m, e) ==
  LET s1 == create_dir_all(Start(m), e)
      s2 == git_init(s1, e)
      s3 == git_config_sparse(s2, e)
      s4 == write_sparse_checkout(s3, e, sparse_patterns_clone, TRUE)
      s5 == git_remote_add(s4, e)
      s6 == fetch_default_branch(s5, e)
      s7 == git_checkout_b(s6, e)
  IN  Finish(s7)

\* The detached-HEAD recovery of update_repo.
checkout_default_branch(st, e) ==
  LET c1 == try_checkout_branch(st, e, "develop")
      c2 == try_checkout_branch(c1, e, "main")
      c3 == try_checkout_branch(c2, e, "master")
  IN  IF c1.ok THEN c1
      ELSE IF c2.ok THEN c2
      ELSE IF c3.ok THEN c3
      ELSE Return(c3, "err")

update_repo(m, e) ==
  LET s1 == git_rev_parse(Start(m), e)
      current_branch == rev_parse_output(m, e)
      s2 == IF current_branch = "HEAD" THEN checkout_default_branch(s1, e) ELSE s1
      s3 == git_config_sparse(s2, e)
      s4 == write_sparse_checkout(s3, e, sparse_patterns_update, FALSE)
      s5 == git_reset_hard(s4, e)
      s6 == git_pull_force(s5, e)
  IN  Finish(s6)

\* Variant: the mirror directory is created before the remote is listed.
test_connection_mkdir(m, e) ==
  Finish(git_ls_remote(create_dir_all(Start(m), e), e))

test_connection(m, e) == Finish(git_ls_remote(Start(m), e))

ensure_repo_exists(m, e) ==
  IF m.dir THEN update_repo(m, e) ELSE clone_repo(m, e)

\* Variant: an existing mirror is taken as already cloned.
ensure_repo_exists_new_skip(m, e) ==
  IF m.dir THEN Finish(Start(m)) ELSE clone_repo(m, e)

ensure_repo_exists_new(m, e) == clone_repo(m, e)

\* Variant: an existing mirror is updated.
ensure_repo_exists_no_update_updates(m, e) ==
  IF m.dir THEN update_repo(m, e) ELSE clone_repo(m, e)

ensure_repo_exists_no_update(m, e) ==
  IF m.dir THEN Finish(Start(m)) ELSE clone_repo(m, e)

----------------------------------------------------------------------------
(* Database *)

NoCredentials == <<>>

\* SELECT url FROM repositories
list_repositories(d) == d.repos

\* INSERT OR REPLACE INTO repositories (url): url is UNIQUE, a replaced row
\* is deleted and inserted again with a new rowid.
add_repository_sync(d, url) ==
  [d EXCEPT !.repos = Append(SelectSeq(@, LAMBDA u : u # url), url)]

get_git_credentials(d) == d.creds

----------------------------------------------------------------------------
(* Operations on one repository *)

SyncUrls == {UrlPool[1]}

Credentials == <<"user", "token">>

NoEnv == [heads |-> {}, rev |-> 1, fault |-> "none"]

NoCall ==
  [op |-> "none", url |-> <<>>, env |-> NoEnv, log |-> <<>>, res |-> "ok",
   present |-> FALSE, again |-> FALSE, unchanged |-> TRUE]

\* The record of a call: its trace and result, whether the mirror directory
\* existed before it, whether it directly follows a successful call of the
\* same operation on the same repository in the same environment that found
\* the mirror directory present, and whether it left the mirror as it was.
Call(o, url, e, st) ==
  [op |-> o, url |-> url, env |-> e, log |-> st.log, res |-> st.res,
   present |-> mirrors[repo_dir(url)].dir,
   again |-> /\ last.op = o /\ last.url = url /\ last.env = e
             /\ last.res = "ok" /\ last.present,
   unchanged |-> st.m = mirrors[repo_dir(url)]]

GitOp(o, url, e, st) ==
  /\ mirrors' = [mirrors EXCEPT ![repo_dir(url)] = st.m]
  /\ last' = Call(o, url, e, st)
  /\ UNCHANGED db
  /\ UNCHANGED batchvars
  /\ UNCHANGED checkvars

\* No command is running.
Idle ==
  /\ op = [kind |-> "none", flag |-> FALSE]
  /\ pc = "idle"
  /\ repos = <<>>
  /\ fan = "none"
  /\ units = <<>>
  /\ nxt = 1
  /\ permits = 0
  /\ joined = 0
  /\ result = "none"
  /\ valid = <<>>
  /\ failed = <<>>
  /\ success = <<>>
  /\ scanned = <<>>
  /\ cands = <<>>
  /\ tested = <<>>
  /\ shown = <<>>

\* No task states are stored, no pipeline file exists, nothing was classified.
\* No call of find_pipeline_files is in progress.
NoWalk == [pc |-> "none", entries |-> <<>>, pos |-> 0, chan |-> <<>>,
           files |-> <<>>, tx |-> FALSE, walker |-> "none", waited |-> FALSE]

NoCheck ==
  /\ walk = NoWalk
  /\ states = <<>>
  /\ tree = [r \in {"r1", "r2"} |-> <<>>]
  /\ issues = [missing_states |-> {}, invalid_states |-> <<>>,
               all_implementations |-> <<>>]
  /\ cmp = [a |-> <<>>, b |-> <<>>, eq |-> FALSE, done |-> FALSE]
  /\ call = [kind |-> "none"]

Init ==
  /\ mirrors = [d \in DirNames |-> Absent]
  /\ db = [creds |-> NoCredentials, repos |-> <<>>]
  /\ last = NoCall
  /\ cores = 1
  /\ Idle
  /\ NoCheck

TestConnection ==
  \E url \in SyncUrls, e \in EnvSet :
    GitOp("test_connection", url, e, test_connection(mirrors[repo_dir(url)], e))

EnsureRepoExists ==
  \E url \in SyncUrls, e \in EnvSet :
    GitOp("ensure_repo_exists", url, e, ensure_repo_exists(mirrors[repo_dir(url)], e))

EnsureRepoExistsNew ==
  \E url \in SyncUrls, e \in EnvSet :
    GitOp("ensure_repo_exists_new", url, e, ensure_repo_exists_new(mirrors[repo_dir(url)], e))

EnsureRepoExistsNoUpdate ==
  \E url \in SyncUrls, e \in EnvSet :
    GitOp("ensure_repo_exists_no_update", url, e,
         ensure_repo_exists_no_update(mirrors[repo_dir(url)], e))

\* Somebody else changes a cloned mirror: edits a file of the working tree,
\* or detaches HEAD.
LocalChange ==
  \E url \in SyncUrls, k \in {"edit", "detach"} :
    LET m == mirrors[repo_dir(url)] IN
    /\ m.git /\ m.hrev > 0
    /\ mirrors' = [mirrors EXCEPT ![repo_dir(url)] =
                     IF k = "edit" THEN [m EXCEPT !.dirty = TRUE]
                                   ELSE [m EXCEPT !.head = "detached"]]
    /\ last' = [NoCall EXCEPT !.op = "local_change", !.url = url, !.unchanged = FALSE]
    /\ UNCHANGED db
    /\ UNCHANGED batchvars
    /\ UNCHANGED checkvars

Next ==
  \/ TestConnection
  \/ EnsureRepoExists
  \/ EnsureRepoExistsNew
  \/ EnsureRepoExistsNoUpdate
  \/ LocalChange

Spec == Init /\ [][Next]_vars

----------------------------------------------------------------------------
(* Commands: the fan-outs of lib.rs and cli_handler.rs.  A spawned task    *)
(* runs from its spawn to its completion; the synchronisation or the scan  *)
(* it performs takes effect when it completes.                             *)

\* Semaphore::new(4) of ensure_all_repos_exist
SyncPermits == 4

\* available_parallelism().map(|n| n.get()).unwrap_or(4)
max_concurrent == cores

Healthy == [heads |-> BranchSet, rev |-> 1, fault |-> "none"]

NoBranches == [heads |-> {}, rev |-> 1, fault |-> "none"]

Unreachable == [heads |-> BranchSet, rev |-> 1, fault |-> "net"]

\* The environments of a task of a command.
BatchEnvs == {Healthy, NoBranches, Unreachable}

Cloned == clone_repo(Absent, Healthy).m

\* The store and the mirrors a command starts from.
InitBatch ==
  /\ mirrors \in {[d \in DirNames |-> Absent], [d \in DirNames |-> Cloned]}
  /\ db \in {[creds |-> c, repos |-> l] :
                c \in {NoCredentials, Credentials}, l \in StoreLists}
  /\ last = NoCall
  /\ cores \in 1..MaxCores
  /\ Idle
  /\ NoCheck

NewUnits(n) == [i \in 1..n |-> [st |-> "idle", res |-> "none"]]

Running == {i \in 1..Len(units) : units[i].st = "running"}

\* The command returns r.
ReturnWith(r) ==
  /\ pc' = "done"
  /\ result' = r

\* A fan-out over list starts: its semaphore has k permits ("usage" has no
\* semaphore) and the spawn loop is at the first entry.
StartFanOut(kind, list, k) ==
  /\ fan' = kind
  /\ repos' = list
  /\ units' = NewUnits(Len(list))
  /\ nxt' = 1
  /\ permits' = k
  /\ joined' = 0
  /\ pc' = IF list = <<>> THEN "join" ELSE "spawn"

\* A variant that looks for the credentials in the spawned task only.
ensure_all_repos_exist_late_check ==
  /\ StartFanOut("sync", list_repositories(db), SyncPermits)
  /\ UNCHANGED result

\* ensure_all_repos_exist up to its spawn loop: without credentials it
\* returns an error.
ensure_all_repos_exist ==
  IF get_git_credentials(db) = NoCredentials
    THEN /\ ReturnWith("err")
         /\ UNCHANGED <<repos, fan, units, nxt, permits, joined>>
    ELSE /\ StartFanOut("sync", list_repositories(db), SyncPermits)
         /\ UNCHANGED result

\* --list-pipelines, --analyze-tasks: ensure_all_repos_exist(db, cli.no_update)
BeginEnsure ==
  /\ pc = "idle"
  /\ \E f \in BOOLEAN : op' = [kind |-> "ensure", flag |-> f]
  /\ ensure_all_repos_exist
  /\ UNCHANGED <<mirrors, db, last, cores, histvars, checkvars, valid, failed, success, scanned>>

\* check_all_task_implementations(repos, None, no_update)
BeginCheck ==
  /\ pc = "idle"
  /\ \E f \in BOOLEAN : op' = [kind |-> "check", flag |-> f]
  /\ ensure_all_repos_exist
  /\ UNCHANGED <<mirrors, db, last, cores, histvars, checkvars, valid, failed, success, scanned>>

\* search_in_pipelines_concurrent(repos, query)
BeginSearch ==
  /\ pc = "idle"
  /\ op' = [kind |-> "search", flag |-> FALSE]
  /\ ensure_all_repos_exist
  /\ UNCHANGED <<mirrors, db, last, cores, histvars, checkvars, valid, failed, success, scanned>>

\* collect_task_usage_data(repos): one task per repository, no semaphore
BeginUsage ==
  /\ pc = "idle"
  /\ op' = [kind |-> "usage", flag |-> FALSE]
  /\ StartFanOut("usage", list_repositories(db), 0)
  /\ UNCHANGED <<mirrors, db, last, cores, histvars, checkvars, result, valid, failed, success, scanned>>

\* --add-multiple-repos: the candidates are tested one at a time first
BeginOnboard ==
  /\ pc = "idle"
  /\ \E f \in BOOLEAN : op' = [kind |-> "onboard", flag |-> f]
  /\ IF get_git_credentials(db) = NoCredentials
       THEN /\ ReturnWith("err")
            /\ UNCHANGED <<repos, nxt, cands>>
       ELSE /\ \E l \in CandidateLists : repos' = l /\ cands' = l
            /\ nxt' = 1
            /\ pc' = "test"
            /\ UNCHANGED result
  /\ UNCHANGED <<mirrors, db, last, cores, tested, shown, checkvars, fan, units,
                 permits, joined, valid, failed, success, scanned>>

\* One iteration of the connection-test loop.
TestCandidate ==
  /\ pc = "test" /\ nxt <= Len(repos)
  /\ \E e \in BatchEnvs :
       LET url == repos[nxt]
           st  == test_connection(mirrors[repo_dir(url)], e)
       IN  /\ mirrors' = [mirrors EXCEPT ![repo_dir(url)] = st.m]
           /\ tested' = Append(tested, [url |-> url, res |-> st.res])
           /\ IF st.res = "ok"
                THEN valid' = Append(valid, url) /\ UNCHANGED failed
                ELSE failed' = Append(failed, url) /\ UNCHANGED valid
  /\ nxt' = nxt + 1
  /\ UNCHANGED <<db, last, cores, cands, shown, checkvars, op, pc, repos, fan,
                 units, permits, joined, result, success, scanned>>

\* A variant that fans out over every candidate.
TestDone_all_candidates ==
  /\ pc = "test" /\ nxt > Len(repos)
  /\ IF valid = <<>>
       THEN /\ ReturnWith("ok")
            /\ UNCHANGED <<repos, fan, units, nxt, permits, joined>>
       ELSE /\ StartFanOut("onboard", cands, max_concurrent)
            /\ UNCHANGED result
  /\ UNCHANGED <<mirrors, db, last, cores, histvars, checkvars, op, valid, failed, success, scanned>>

\* After the last test: nothing to do, or the fan-out over valid_repos.
TestDone ==
  /\ pc = "test" /\ nxt > Len(repos)
  /\ IF valid = <<>>
       THEN /\ ReturnWith("ok")
            /\ UNCHANGED <<repos, fan, units, nxt, permits, joined>>
       ELSE /\ StartFanOut("onboard", valid, max_concurrent)
            /\ UNCHANGED result
  /\ UNCHANGED <<mirrors, db, last, cores, histvars, checkvars, op, valid, failed, success, scanned>>

\* One iteration of a spawn loop: acquire_owned().await, then tokio::spawn.
Spawn ==
  /\ pc = "spawn" /\ nxt <= Len(repos)
  /\ fan # "usage" => permits > 0
  /\ permits' = IF fan = "usage" THEN permits ELSE permits - 1
  /\ units' = [units EXCEPT ![nxt].st = "running"]
  /\ nxt' = nxt + 1
  /\ pc' = IF nxt = Len(repos) THEN "join" ELSE "spawn"
  /\ UNCHANGED <<mirrors, db, last, cores, histvars, checkvars, op, repos, fan, joined, result,
                 valid, failed, success, scanned>>

\* The synchroniser call of a task of ensure_all_repos_exist or of the
\* onboarding fan-out.
sync_unit(m, e) ==
  IF fan = "sync"
    THEN IF op.flag THEN ensure_repo_exists_no_update(m, e)
                    ELSE ensure_repo_exists(m, e)
    ELSE IF op.flag THEN ensure_repo_exists_new(m, e)
                    ELSE ensure_repo_exists(m, e)

\* A variant in which a failed task keeps its permit.
FinishSync_keep_on_error ==
  \E i \in Running, e \in BatchEnvs :
    LET url == repos[i]
        st  == sync_unit(mirrors[repo_dir(url)], e)
    IN  /\ fan \in {"sync", "onboard"}
        /\ mirrors' = [mirrors EXCEPT ![repo_dir(url)] = st.m]
        /\ units' = [units EXCEPT ![i] = [st |-> "done", res |-> st.res]]
        /\ permits' = IF st.res = "ok" THEN permits + 1 ELSE permits
        /\ UNCHANGED <<db, last, cores, histvars, checkvars, op, pc, repos, fan, nxt, joined,
                       result, valid, failed, success, scanned>>

\* A synchronisation task completes and drops its permit.
FinishSync ==
  \E i \in Running, e \in BatchEnvs :
    LET url == repos[i]
        st  == sync_unit(mirrors[repo_dir(url)], e)
    IN  /\ fan \in {"sync", "onboard"}
        /\ mirrors' = [mirrors EXCEPT ![repo_dir(url)] = st.m]
        /\ units' = [units EXCEPT ![i] = [st |-> "done", res |-> st.res]]
        /\ permits' = permits + 1
        /\ UNCHANGED <<db, last, cores, histvars, checkvars, op, pc, repos, fan, nxt, joined,
                       result, valid, failed, success, scanned>>

\* A search task completes: it sends its result on the channel and drops
\* its permit.
FinishSearch ==
  \E i \in Running :
    /\ fan = "search"
    /\ units' = [units EXCEPT ![i] = [st |-> "done", res |-> "ok"]]
    /\ scanned' = Append(scanned, repos[i])
    /\ permits' = permits + 1
    /\ UNCHANGED <<mirrors, db, last, cores, histvars, checkvars, op, pc, repos, fan, nxt, joined,
                   result, valid, failed, success>>

\* A task of collect_task_usage_data completes; reading a file may fail.
FinishUsage ==
  \E i \in Running, ok \in BOOLEAN :
    /\ fan = "usage"
    /\ units' = [units EXCEPT ![i] = [st |-> "done",
                                      res |-> IF ok THEN "ok" ELSE "err"]]
    /\ scanned' = IF ok THEN Append(scanned, repos[i]) ELSE scanned
    /\ UNCHANGED <<mirrors, db, last, cores, histvars, checkvars, op, pc, repos, fan, nxt, permits,
                   joined, result, valid, failed, success>>

\* A variant that goes on after a failed task.
Join_ignores_error ==
  /\ pc = "join" /\ fan \in {"sync", "usage"}
  /\ joined < Len(repos)
  /\ units[joined + 1].st = "done"
  /\ joined' = joined + 1
  /\ UNCHANGED <<mirrors, db, last, cores, histvars, checkvars, op, pc, result, repos, fan,
                 units, nxt, permits, valid, failed, success, scanned>>

\* handle.await?? of ensure_all_repos_exist and collect_task_usage_data: the
\* first failed task makes the function return its error.
Join ==
  /\ pc = "join" /\ fan \in {"sync", "usage"}
  /\ joined < Len(repos)
  /\ units[joined + 1].st = "done"
  /\ IF units[joined + 1].res = "err"
       THEN ReturnWith("err") /\ UNCHANGED joined
       ELSE joined' = joined + 1 /\ UNCHANGED <<pc, result>>
  /\ UNCHANGED <<mirrors, db, last, cores, histvars, checkvars, op, repos, fan, units, nxt,
                 permits, valid, failed, success, scanned>>

\* handle.await? of the onboarding fan-out: every outcome is recorded.
JoinOnboard ==
  /\ pc = "join" /\ fan = "onboard"
  /\ joined < Len(repos)
  /\ units[joined + 1].st = "done"
  /\ joined' = joined + 1
  /\ IF units[joined + 1].res = "ok"
       THEN success' = Append(success, repos[joined + 1]) /\ UNCHANGED failed
       ELSE failed' = Append(failed, repos[joined + 1]) /\ UNCHANGED success
  /\ shown' = Append(shown, repos[joined + 1])
  /\ UNCHANGED <<mirrors, db, last, cores, cands, tested, checkvars, op, pc,
                 repos, fan, units, nxt, permits, result, valid, scanned>>

\* ensure_all_repos_exist returned Ok(()): the command goes on.
EnsureAllOk ==
  /\ pc = "join" /\ fan = "sync" /\ joined = Len(repos)
  /\ CASE op.kind \in {"check", "ensure"} ->
            \* the loop over the repositories that reads their pipeline files
            /\ pc' = "scan"
            /\ UNCHANGED <<repos, fan, units, nxt, permits, joined, result>>
       [] op.kind = "search" ->
            \* tokio::sync::mpsc::channel(repos.len()) panics on 0
            IF repos = <<>>
              THEN /\ ReturnWith("panic")
                   /\ UNCHANGED <<repos, fan, units, nxt, permits, joined>>
              ELSE /\ StartFanOut("search", repos, max_concurrent)
                   /\ UNCHANGED result
       [] OTHER ->
            /\ ReturnWith("ok")
            /\ UNCHANGED <<repos, fan, units, nxt, permits, joined>>
  /\ UNCHANGED <<mirrors, db, last, cores, histvars, checkvars, op, valid, failed, success, scanned>>

\* One iteration of the scan loop of check_all_task_implementations, of
\* collect_task_usage and of --list-pipelines; an unreadable file makes it
\* return the error.
ScanRepo ==
  /\ pc = "scan" /\ Len(scanned) < Len(repos)
  /\ \E ok \in BOOLEAN :
       IF ok THEN /\ scanned' = Append(scanned, repos[Len(scanned) + 1])
                  /\ UNCHANGED <<pc, result>>
             ELSE /\ ReturnWith("err")
                  /\ UNCHANGED scanned
  /\ UNCHANGED <<mirrors, db, last, cores, histvars, checkvars, op, repos, fan, units, nxt,
                 permits, joined, valid, failed, success>>

\* Every repository was scanned: the tasks are classified.
CheckDone ==
  /\ pc = "scan" /\ Len(scanned) = Len(repos)
  /\ ReturnWith("ok")
  /\ UNCHANGED <<mirrors, db, last, cores, histvars, checkvars, op, repos, fan, units, nxt,
                 permits, joined, valid, failed, success, scanned>>

\* rx.recv().await of the search: one result is taken from the channel and
\* pushed to results when it has findings.
Collect ==
  /\ pc = "join" /\ fan = "search"
  /\ joined < Len(scanned)
  /\ joined' = joined + 1
  /\ \E findings \in BOOLEAN :
       shown' = IF findings THEN Append(shown, scanned[joined + 1]) ELSE shown
  /\ UNCHANGED <<mirrors, db, last, cores, cands, tested, checkvars, op, pc,
                 repos, fan, units, nxt, permits, result, valid, failed,
                 success, scanned>>

\* The channel is empty and every sender is dropped: the results are shown.
SearchDone ==
  /\ pc = "join" /\ fan = "search"
  /\ joined = Len(scanned)
  /\ \A i \in 1..Len(units) : units[i].st = "done"
  /\ shown' = sort_by_repo(shown)
  /\ ReturnWith("ok")
  /\ UNCHANGED <<mirrors, db, last, cores, cands, tested, checkvars, op, repos,
                 fan, units, nxt, permits, joined, valid, failed, success,
                 scanned>>

\* collect_task_usage_data merged every task's map.
UsageDone ==
  /\ pc = "join" /\ fan = "usage" /\ joined = Len(repos)
  /\ ReturnWith("ok")
  /\ UNCHANGED <<mirrors, db, last, cores, histvars, checkvars, op, repos, fan, units, nxt,
                 permits, joined, valid, failed, success, scanned>>

\* Every onboarding handle was awaited: the successful URLs are added.
OnboardJoined ==
  /\ pc = "join" /\ fan = "onboard" /\ joined = Len(repos)
  /\ pc' = "add"
  /\ nxt' = 1
  /\ UNCHANGED <<mirrors, db, last, cores, histvars, checkvars, op, repos, fan, units, permits,
                 joined, result, valid, failed, success, scanned>>

\* A variant that adds every candidate that passed the connection test.
AddToDatabase_all_valid ==
  /\ pc = "add" /\ nxt <= Len(success)
  /\ db' = add_repository_sync(db, valid[nxt])
  /\ nxt' = nxt + 1
  /\ UNCHANGED <<mirrors, last, cores, histvars, checkvars, op, pc, repos, fan, units, permits,
                 joined, result, valid, failed, success, scanned>>

\* One iteration of the loop over success_urls.
AddToDatabase ==
  /\ pc = "add" /\ nxt <= Len(success)
  /\ db' = add_repository_sync(db, success[nxt])
  /\ nxt' = nxt + 1
  /\ UNCHANGED <<mirrors, last, cores, histvars, checkvars, op, pc, repos, fan, units, permits,
                 joined, result, valid, failed, success, scanned>>

OnboardDone ==
  /\ pc = "add" /\ nxt > Len(success)
  /\ ReturnWith("ok")
  /\ UNCHANGED <<mirrors, db, last, cores, histvars, checkvars, op, repos, fan, units, nxt,
                 permits, joined, valid, failed, success, scanned>>

\* Database::add_repository(url, is_new)
AddRepository ==
  /\ pc = "idle"
  /\ \E i \in 1..MaxCandidates, f \in BOOLEAN, e \in BatchEnvs :
       LET url == UrlPool[i]
           m   == mirrors[repo_dir(url)]
           st  == IF f THEN ensure_repo_exists_new(m, e)
                       ELSE ensure_repo_exists(m, e)
       IN  /\ op' = [kind |-> "add", flag |-> f]
           /\ repos' = <<url>>
           /\ IF get_git_credentials(db) = NoCredentials
                THEN /\ ReturnWith("err")
                     /\ UNCHANGED <<mirrors, db>>
                ELSE /\ mirrors' = [mirrors EXCEPT ![repo_dir(url)] = st.m]
                     /\ ReturnWith(st.res)
                     /\ db' = IF st.res = "ok" THEN add_repository_sync(db, url)
                                               ELSE db
  /\ UNCHANGED <<last, cores, histvars, checkvars, fan, units, nxt, permits, joined, valid, failed,
                 success, scanned>>

NextBatch ==
  \/ BeginEnsure
  \/ BeginCheck
  \/ BeginSearch
  \/ BeginUsage
  \/ BeginOnboard
  \/ TestCandidate
  \/ TestDone
  \/ Spawn
  \/ FinishSync
  \/ FinishSearch
  \/ FinishUsage
  \/ Join
  \/ JoinOnboard
  \/ EnsureAllOk
  \/ ScanRepo
  \/ CheckDone
  \/ Collect
  \/ SearchDone
  \/ UsageDone
  \/ OnboardJoined
  \/ AddToDatabase
  \/ OnboardDone
  \/ AddRepository

SpecBatch == InitBatch /\ [][NextBatch]_vars

\* The spawn loop goes on as soon as acquire_owned() has a permit, and every
\* spawned task comes to its end: again and again no task is running.
FairBatch ==
  /\ SpecBatch
  /\ WF_vars(Spawn)
  /\ []<>(Running = {})

----------------------------------------------------------------------------
(* Task versions, valid states and pipeline files.  A version string is    *)
(* the sequence of its '.'-separated parts; a pipeline file is the         *)
(* sequence of its lines, of which the model keeps what the extraction     *)
(* looks at: a `task: <name>@<version>` line, a `versionSpec: '<v>'` line  *)
(* or another line, and the comment marker the trimmed line starts with.   *)

MaxLines == 2

\* A version string is the sequence of its '.'-separated parts.
\* The parts that Version::parse reads as a number: decimal digits without a
\* leading zero, of a value that fits u64.
Numerals == {"0", "1", "2", "3", "4", "6"}

\* u64::MAX + 1
TooBig == "18446744073709551616"

\* The parts made of ASCII digits only: the empty part is one of them
\* (all() of no character), "01" has a leading zero, TooBig overflows u64.
Digits == Numerals \cup {"", "01", TooBig}

\* A patch part with a pre-release tag.
PreRelease == {"0-rc"}

\* v.chars().all(|c| c.is_ascii_digit()): a '.' is not a digit
all_digits(v) == Len(v) = 1 /\ v[1] \in Digits

\* normalize of version_eq, before Version::parse
normalize(v) ==
  IF all_digits(v) THEN v \o <<"0", "0">>
  ELSE IF Len(v) = 2 THEN v \o <<"0">>
  ELSE v

\* Version::parse(v).is_ok(): major.minor.patch, each a number, the patch
\* optionally followed by a pre-release tag
parses(v) ==
  /\ Len(v) = 3
  /\ v[1] \in Numerals
  /\ v[2] \in Numerals
  /\ v[3] \in Numerals \cup PreRelease

\* A variant that normalises only its first argument.
version_eq_normalizes_self(a, b) ==
  IF parses(normalize(a)) /\ parses(normalize(b))
    THEN normalize(a) = b
    ELSE a = b

\* A variant whose fallback never holds.
version_eq_no_fallback(a, b) ==
  IF parses(normalize(a)) /\ parses(normalize(b))
    THEN normalize(a) = normalize(b)
    ELSE FALSE

\* (Ok(v1), Ok(v2)) => v1 == v2, _ => self == other
version_eq(a, b) ==
  IF parses(normalize(a)) /\ parses(normalize(b))
    THEN normalize(a) = normalize(b)
    ELSE a = b

Range(l) == {l[i] : i \in 1..Len(l)}

None == [some |-> FALSE, v |-> <<>>]

Some(x) == [some |-> TRUE, v |-> x]

TaskLine(name, ver, c) == [k |-> "task", name |-> name, ver |-> ver, c |-> c]

SpecLine(val) == [k |-> "spec", name |-> "", ver |-> val, c |-> ""]

OtherLine == [k |-> "other", name |-> "", ver |-> <<>>, c |-> ""]

Setup == "gitversion/setup"

Execute == "gitversion/execute"

LineSet ==
  {TaskLine(Setup, <<"3">>, ""), TaskLine(Setup, <<"3">>, "#"),
   TaskLine(Execute, <<"3">>, ""), TaskLine(Execute, <<"4">>, ""),
   TaskLine("copyfiles", <<"1">>, ""),
   SpecLine(<<"6", "0", "3">>), SpecLine(<<"6", "0", "0">>), OtherLine}

\* .take(10) of the lookahead
LookAhead == 10

Gap(n) == [i \in 1..n |-> OtherLine]

\* A setup@3 line, n other lines, the line versionSpec: '6.0.3' and an
\* execute line.
Spaced(n, execute) ==
  <<TaskLine(Setup, <<"3">>, "")>> \o Gap(n)
  \o <<SpecLine(<<"6", "0", "3">>), TaskLine(Execute, execute, "")>>

\* The line l behind the comment marker c ('#' or '//').
Commented(l, c) == [l EXCEPT !.c = c]

\* A setup@3 line, a commented setup@4 line and the line versionSpec: '6.0.0'.
Shadowed(c) ==
  <<TaskLine(Setup, <<"3">>, ""), TaskLine(Setup, <<"4">>, c),
    SpecLine(<<"6", "0", "0">>)>>

\* Files with comment lines: a commented setup line before a versionSpec, a
\* commented versionSpec after a setup line, a commented setup line with its
\* versionSpec and an execute line, and commented lines of a generic task.
CommentFiles ==
  {Shadowed("#"), Shadowed("//"),
   <<TaskLine(Setup, <<"3">>, ""), Commented(SpecLine(<<"6", "0", "3">>), "#"),
     TaskLine(Execute, <<"3">>, "")>>,
   <<TaskLine(Setup, <<"3">>, "//"), SpecLine(<<"6", "0", "3">>),
     TaskLine(Execute, <<"3">>, "")>>,
   <<TaskLine("copyfiles", <<"1">>, "#"), TaskLine("copyfiles", <<"1">>, "")>>,
   <<TaskLine("copyfiles", <<"2">>, "//")>>}

\* The content of a file that read_to_string cannot read.
Unreadable == <<[k |-> "unreadable", name |-> "", ver |-> <<>>, c |-> ""]>>

FileSet ==
  UNION {[1..n -> LineSet] : n \in 1..MaxLines}
  \cup {Spaced(n, e) : n \in {0, LookAhead - 1, LookAhead}, e \in {<<"3">>, <<"4">>}}
  \cup CommentFiles

\* The repositories given to a check or a search, and the files of each
\* mirror in the order find_pipeline_files returns them.
CheckRepos == <<UrlPool[1], UrlPool[2]>>

TreeSet ==
  {[r \in {"r1", "r2"} |-> IF r = "r1" THEN <<f>> \o more ELSE other] :
     f \in FileSet,
     more \in {<<>>, << <<TaskLine(Execute, <<"3">>, "")>> >>, <<Unreadable>>,
               << <<TaskLine(Setup, <<"4">>, "")>> >>},
     other \in {<<>>, << <<TaskLine(Execute, <<"4">>, "")>> >>}}

\* GitVersionState and TaskValidState::Default, as rows of valid_states
GitVersionState(setup, execute, spec) ==
  [type |-> "Gitversion", setup_version |-> setup,
   execute_version |-> execute, spec_version |-> spec, v |-> <<>>]

Default(v) ==
  [type |-> "Default", setup_version |-> <<>>, execute_version |-> <<>>,
   spec_version |-> <<>>, v |-> v]

\* serde_json::to_string(state): the tag and the value of the state
serialize_state(state) ==
  IF state.type = "Default"
    THEN <<"Default", state.v>>
    ELSE <<"Gitversion", state.setup_version, state.execute_version,
           state.spec_version>>

\* serde_json::from_str(json)
deserialize_state(json) ==
  IF json[1] = "Default"
    THEN Default(json[2])
    ELSE GitVersionState(json[2], json[3], json[4])

\* A row of valid_states: (task, state_json)
Row(task, state) == [task |-> task, state_json |-> serialize_state(state)]

GitversionTables ==
  {<<>>,
   <<Row("gitversion", GitVersionState(<<"3">>, <<"3">>, <<"6", "0", "3">>))>>,
   <<Row("gitversion", GitVersionState(<<"3">>, <<"3">>, <<"6", "0">>))>>,
   <<Row("gitversion", GitVersionState(<<"?">>, <<"?">>, <<"?">>)),
     Row("gitversion", GitVersionState(<<"3">>, <<"4">>, <<"6", "0", "0">>))>>}

DefaultTables ==
  {<<>>,
   <<Row("copyfiles", Default(<<"1">>))>>,
   <<Row("CopyFiles", Default(<<"1", "0">>))>>,
   <<Row("copyfiles", Default(<<"2">>)), Row("copyfiles", Default(<<"1", "0", "0">>))>>}

\* LOWER(task) of SQLite on the task names of the model
lower(name) ==
  CASE name \in {"CopyFiles", "COPYFILES"} -> "copyfiles"
    [] name = "GitVersion" -> "gitversion"
    [] OTHER -> name

\* the entries of l without repetition, in the order of their first occurrence
RECURSIVE distinct(_)
distinct(l) ==
  IF l = <<>> THEN <<>>
  ELSE LET d == distinct(SubSeq(l, 1, Len(l) - 1))
       IN  IF \E i \in 1..Len(d) : d[i] = l[Len(l)] THEN d
           ELSE Append(d, l[Len(l)])

\* A variant of the query without LOWER: WHERE task = ?1.
list_valid_states_exact_task(t, task) ==
  LET rows == SelectSeq(t, LAMBDA r : r.task = task)
      json == distinct([i \in 1..Len(rows) |-> rows[i].state_json])
  IN  [i \in 1..Len(json) |-> deserialize_state(json[i])]

\* SELECT DISTINCT state_json FROM valid_states WHERE LOWER(task) = LOWER(?1)
list_valid_states(t, task) ==
  LET rows == SelectSeq(t, LAMBDA r : lower(r.task) = lower(task))
      json == distinct([i \in 1..Len(rows) |-> rows[i].state_json])
  IN  [i \in 1..Len(json) |-> deserialize_state(json[i])]

----------------------------------------------------------------------------
(* check_all_task_implementations after ensure_all_repos_exist             *)

\* The files of a repository as (path, lines) in walk order.
files_of(t, url) ==
  [i \in 1..Len(t[repo_name(url)]) |->
     [path |-> <<repo_name(url), i>>, lines |-> t[repo_name(url)][i]]]

TaskImplementation(repo, ver, path) ==
  [repo_name |-> repo, version |-> ver, file_path |-> path]

\* a variant that does not drop the comment lines
file_implementations_with_comments(url, f, name) ==
  LET hits == SelectSeq(f.lines, LAMBDA l : l.k = "task" /\ l.name = name)
  IN  [i \in 1..Len(hits) |-> TaskImplementation(repo_name(url), hits[i].ver, f.path)]

\* the lines of a file that are neither '#' nor '//' comments and match
\* task:\s*([\w/]+)@(\d+), as invocations of task name
file_implementations(url, f, name) ==
  LET hits == SelectSeq(f.lines, LAMBDA l : l.k = "task" /\ l.c = "" /\ l.name = name)
  IN  [i \in 1..Len(hits) |-> TaskImplementation(repo_name(url), hits[i].ver, f.path)]

RECURSIVE concat(_)
concat(ll) == IF ll = <<>> THEN <<>> ELSE Head(ll) \o concat(Tail(ll))

\* task_implementations.get(name): over the repositories and their files
implementations(t, rs, name) ==
  concat([r \in 1..Len(rs) |->
            concat([i \in 1..Len(files_of(t, rs[r])) |->
                      file_implementations(rs[r], files_of(t, rs[r])[i], name)])])

\* the task names found, sorted
task_names(t, rs) ==
  SelectSeq(<<"copyfiles", Execute, Setup>>,
            LAMBDA n : implementations(t, rs, n) # <<>>)

\* lines.iter().skip(i + 1).take(10): the versionSpec the lookahead finds from
\* line j on within n lines, if any
RECURSIVE look_ahead(_, _, _)
look_ahead(lines, j, n) ==
  IF n = 0 \/ j > Len(lines) THEN None
  ELSE IF lines[j].k = "spec" THEN Some(lines[j].ver)
  ELSE IF lines[j].k = "task" THEN None
  ELSE look_ahead(lines, j + 1, n - 1)

\* the loop over the lines of the setup's file: every line that contains
\* "task: gitversion/setup" starts a lookahead, a found versionSpec replaces
\* spec_version
RECURSIVE spec_from_file(_, _, _)
spec_from_file(lines, i, spec) ==
  IF i > Len(lines) THEN spec
  ELSE LET found == IF lines[i].k = "task" /\ lines[i].name = Setup
                      THEN look_ahead(lines, i + 1, LookAhead)
                      ELSE None
       IN  spec_from_file(lines, i + 1, IF found.some THEN found ELSE spec)

NoTriple == [setup |-> None, execute |-> None, spec |-> None, file |-> None]

\* the loop over the implementations of one repository, setups first
RECURSIVE triple_of(_, _, _, _)
triple_of(t, impls, i, acc) ==
  IF i > Len(impls) THEN acc
  ELSE LET im == impls[i].impl
           lines == t[im.file_path[1]][im.file_path[2]]
       IN  triple_of(t, impls, i + 1,
             IF impls[i].type = Setup
               THEN [acc EXCEPT !.setup = Some(im.version),
                                !.file = Some(im.file_path),
                                !.spec = spec_from_file(lines, 1, acc.spec)]
               ELSE [acc EXCEPT !.execute = Some(im.version)])

\* repo_implementations.get(repo): the setup then the execute implementations
repo_implementations(t, rs, repo) ==
  LET tag(l, ty) == [i \in 1..Len(l) |-> [impl |-> l[i], type |-> ty]]
      mine(l) == SelectSeq(l, LAMBDA im : im.repo_name = repo)
  IN  tag(mine(implementations(t, rs, Setup)), Setup)
      \o tag(mine(implementations(t, rs, Execute)), Execute)

\* a variant of the comparison that accepts a missing spec version
gitversion_is_valid_lenient(valid_states, tr) ==
  \E i \in 1..Len(valid_states) :
    /\ tr.setup.some /\ tr.setup.v = valid_states[i].setup_version
    /\ tr.execute.some /\ tr.execute.v = valid_states[i].execute_version
    /\ tr.spec.some => tr.spec.v = valid_states[i].spec_version

\* a variant of the comparison that does not look at the execute version
gitversion_is_valid_ignores_execute(valid_states, tr) ==
  \E i \in 1..Len(valid_states) :
    /\ tr.setup.some /\ tr.setup.v = valid_states[i].setup_version
    /\ tr.execute.some
    /\ tr.spec.some /\ tr.spec.v = valid_states[i].spec_version

\* setup, execute and spec are all present and equal, as strings, to the
\* members of some valid state
gitversion_is_valid(valid_states, tr) ==
  \E i \in 1..Len(valid_states) :
    /\ tr.setup.some /\ tr.setup.v = valid_states[i].setup_version
    /\ tr.execute.some /\ tr.execute.v = valid_states[i].execute_version
    /\ tr.spec.some /\ tr.spec.v = valid_states[i].spec_version

\* the repositories with a gitversion implementation, sorted by name
gitversion_repos(t, rs) ==
  SelectSeq(<<"r1", "r2">>, LAMBDA n : repo_implementations(t, rs, n) # <<>>)

Verdict(ok, repo, tr) == [ok |-> ok, repo |-> repo, triple |-> tr]

\* the lines printed for the gitversion tasks: one per repository
gitversion_verdicts(t, st, rs) ==
  LET valid_states == list_valid_states(st, "gitversion")
      rn == gitversion_repos(t, rs)
  IN  [i \in 1..Len(rn) |->
         LET tr == triple_of(t, repo_implementations(t, rs, rn[i]), 1, NoTriple)
         IN  Verdict(gitversion_is_valid(valid_states, tr), rn[i], tr)]

Invalid(task, im) == [task |-> task, impl |-> im]

\* the entries pushed to invalid_states for a gitversion task name
gitversion_invalid(t, st, rs, name) ==
  LET bad == SelectSeq(gitversion_verdicts(t, st, rs), LAMBDA v : ~v.ok)
  IN  [i \in 1..Len(bad) |->
         Invalid(name,
                 TaskImplementation(bad[i].repo,
                    IF bad[i].triple.setup.some THEN bad[i].triple.setup.v ELSE <<"?">>,
                    IF bad[i].triple.file.some THEN bad[i].triple.file.v ELSE <<>>))]

\* matches!(state, TaskValidState::Default(v) if v == &implementation.version)
default_is_valid(valid_states, version) ==
  \E i \in 1..Len(valid_states) :
    valid_states[i].type = "Default" /\ valid_states[i].v = version

\* the entries pushed to invalid_states for another task name
default_invalid(t, st, rs, name) ==
  LET valid_states == list_valid_states(st, name)
      bad == SelectSeq(implementations(t, rs, name),
                       LAMBDA im : ~default_is_valid(valid_states, im.version))
  IN  [i \in 1..Len(bad) |-> Invalid(name, bad[i])]

\* TaskIssues after the loop over the task names
check_all_task_implementations(t, st, rs) ==
  LET names == task_names(t, rs)
      others == SelectSeq(names, LAMBDA n : n \notin {Setup, Execute})
  IN  [missing_states |->
         {n \in Range(others) : list_valid_states(st, n) = <<>>},
       invalid_states |->
         concat([i \in 1..Len(names) |->
                   IF names[i] \in {Setup, Execute}
                     THEN gitversion_invalid(t, st, rs, names[i])
                     ELSE default_invalid(t, st, rs, names[i])]),
       all_implementations |->
         [n \in Range(names) |-> implementations(t, rs, n)]]

----------------------------------------------------------------------------
(* search_gitversion_tasks and search_default_task                         *)

NoImplementation == [setup |-> None, execute |-> None, spec |-> None, file |-> None]

\* the loop over the lines of one file: a '#' line is skipped, a line with
\* "task: gitversion/" sets setup (with the versionSpec its lookahead found)
\* or execute of current_impl
RECURSIVE current_impl(_, _, _)
current_impl(f, i, acc) ==
  IF i > Len(f.lines) THEN acc
  ELSE LET l == f.lines[i]
       IN  current_impl(f, i + 1,
             IF l.k # "task" \/ l.c = "#" THEN acc
             ELSE IF l.name = Setup
               THEN [acc EXCEPT !.setup = Some(l.ver), !.file = Some(f.path),
                                !.spec = look_ahead(f.lines, i + 1, LookAhead)]
             ELSE IF l.name = Execute
               THEN [acc EXCEPT !.execute = Some(l.ver), !.file = Some(f.path)]
             ELSE acc)

\* the lines printed for one repository: one per file that has a gitversion task
search_repo_verdicts(t, valid_states, url) ==
  LET fs == files_of(t, url)
      all == [i \in 1..Len(fs) |-> current_impl(fs[i], 1, NoImplementation)]
      found == SelectSeq(all, LAMBDA im : im.setup.some \/ im.execute.some)
  IN  [i \in 1..Len(found) |->
         Verdict(gitversion_is_valid(valid_states, found[i]), repo_name(url), found[i])]

search_gitversion_tasks(t, st, rs) ==
  concat([r \in 1..Len(rs) |->
            search_repo_verdicts(t, list_valid_states(st, "gitversion"), rs[r])])

\* the captures of task:\s*<name>\s*@(\d+) in the content of one file: comment
\* lines are part of the content
default_captures(f, name) ==
  SelectSeq(f.lines, LAMBDA l : l.k = "task" /\ l.name = name)

search_default_file(valid_states, url, f, name) ==
  LET caps == default_captures(f, name)
  IN  [i \in 1..Len(caps) |->
         Verdict(default_is_valid(valid_states, caps[i].ver), repo_name(url),
                 [NoImplementation EXCEPT !.setup = Some(caps[i].ver),
                                          !.file = Some(f.path)])]

search_default_task(t, st, rs, name) ==
  concat([r \in 1..Len(rs) |->
            concat([i \in 1..Len(files_of(t, rs[r])) |->
                      search_default_file(list_valid_states(st, name), rs[r],
                                          files_of(t, rs[r])[i], name)])])

----------------------------------------------------------------------------
(* collect_task_usage, collect_task_usage_data, search_in_pipelines        *)

Usage(task, im) == [task |-> task, impl |-> im]

\* the entries one file adds to task_map: the lines that are neither '#' nor
\* '//' comments and match task:\s*([\w/]+)@(\d+), one entry per line
usage_of_file(url, f) ==
  LET hits == SelectSeq(f.lines, LAMBDA l : l.k = "task" /\ l.c = "")
  IN  [i \in 1..Len(hits) |->
         Usage(hits[i].name, TaskImplementation(repo_name(url), hits[i].ver, f.path))]

\* task_map of collect_task_usage, as its entries in the order of the pushes
collect_task_usage(t, rs) ==
  concat([r \in 1..Len(rs) |->
            concat([i \in 1..Len(files_of(t, rs[r])) |->
                      usage_of_file(rs[r], files_of(t, rs[r])[i])])])

\* the entries one file adds to repo_task_map: the captures of the pattern in
\* the whole content, comment lines included
usage_data_of_file(url, f) ==
  LET hits == SelectSeq(f.lines, LAMBDA l : l.k = "task")
  IN  [i \in 1..Len(hits) |->
         Usage(hits[i].name, TaskImplementation(repo_name(url), hits[i].ver, f.path))]

\* final_map of collect_task_usage_data, as its entries repository by
\* repository
collect_task_usage_data(t, rs) ==
  concat([r \in 1..Len(rs) |->
            concat([i \in 1..Len(files_of(t, rs[r])) |->
                      usage_data_of_file(rs[r], files_of(t, rs[r])[i])])])

Finding(url, f) == [repo |-> url, file |-> f.path]

\* repo_findings of one repository for the query "task:": a file that cannot
\* be read is passed over
repo_findings(t, url) ==
  LET fs == SelectSeq(files_of(t, url),
                      LAMBDA f : f.lines # Unreadable
                                 /\ \E i \in 1..Len(f.lines) : f.lines[i].k = "task")
  IN  [i \in 1..Len(fs) |-> Finding(url, fs[i])]

\* the results shown by search_in_pipelines_concurrent: the repositories with
\* findings
search_in_pipelines(t, rs) ==
  concat([r \in 1..Len(rs) |-> repo_findings(t, rs[r])])

----------------------------------------------------------------------------
(* Files that cannot be read                                               *)

\* the index of the first file of the repository that cannot be read, 0 when
\* every file can
bad_file(t, url) ==
  LET fs == t[repo_name(url)]
      bad == {i \in 1..Len(fs) : fs[i] = Unreadable}
  IN  IF bad = {} THEN 0 ELSE CHOOSE i \in bad : \A j \in bad : i <= j

\* the index of the first repository that has such a file, 0 when none has
bad_repo(t, rs) ==
  LET bad == {r \in 1..Len(rs) : bad_file(t, rs[r]) # 0}
  IN  IF bad = {} THEN 0 ELSE CHOOSE r \in bad : \A q \in bad : r <= q

\* the files read before read_to_string(..)? returns the error
read_before(t, rs) ==
  LET url == rs[bad_repo(t, rs)]
  IN  [t EXCEPT ![repo_name(url)] = SubSeq(@, 1, bad_file(t, url) - 1)]

----------------------------------------------------------------------------
(* Classification commands on given mirrors and a given valid_states table *)

NoCmp == [a |-> <<>>, b |-> <<>>, eq |-> FALSE, done |-> FALSE]

NoRegistryCall == [kind |-> "none"]

NoIssues == [missing_states |-> {}, invalid_states |-> <<>>,
             all_implementations |-> <<>>]

InitCheck ==
  /\ mirrors = [d \in DirNames |-> Cloned]
  /\ db = [creds |-> Credentials, repos |-> CheckRepos]
  /\ last = NoCall
  /\ cores = 1
  /\ Idle
  /\ states \in {g \o d : g \in GitversionTables, d \in DefaultTables}
  /\ tree \in TreeSet
  /\ issues = NoIssues
  /\ cmp = NoCmp
  /\ call = NoRegistryCall
  /\ walk = NoWalk

\* The command returns Ok(()) after it has printed its lines.
Done(kind, lines) ==
  /\ pc = "idle"
  /\ op' = [kind |-> kind, flag |-> FALSE]
  /\ pc' = "done"
  /\ result' = "ok"
  /\ shown' = lines
  /\ UNCHANGED <<mirrors, db, last, cores, repos, fan, units, nxt, permits,
                 joined, valid, failed, success, scanned, cands, tested,
                 states, tree, cmp, call, walk>>

\* The command returns the error of read_to_string(..)? after it has printed
\* its lines.
Failed(kind, lines) ==
  /\ pc = "idle"
  /\ op' = [kind |-> kind, flag |-> FALSE]
  /\ pc' = "done"
  /\ result' = "err"
  /\ shown' = lines
  /\ UNCHANGED <<mirrors, db, last, cores, repos, fan, units, nxt, permits,
                 joined, valid, failed, success, scanned, cands, tested,
                 states, tree, issues, cmp, call, walk>>

\* A variant that deletes the valid states of the tasks it has checked.
CheckAllTaskImplementations_clears_states ==
  /\ pc = "idle"
  /\ bad_repo(tree, CheckRepos) = 0
  /\ op' = [kind |-> "check_tasks", flag |-> FALSE]
  /\ pc' = "done"
  /\ result' = "ok"
  /\ issues' = check_all_task_implementations(tree, states, CheckRepos)
  /\ shown' = gitversion_verdicts(tree, states, CheckRepos)
  /\ states' = SelectSeq(states, LAMBDA r : lower(r.task) \notin DOMAIN issues'.all_implementations)
  /\ UNCHANGED <<mirrors, db, last, cores, repos, fan, units, nxt, permits,
                 joined, valid, failed, success, scanned, cands, tested,
                 tree, cmp, call, walk>>

\* --check-tasks, from the scan on: every file is read before a line is
\* printed
CheckAllTaskImplementations ==
  IF bad_repo(tree, CheckRepos) # 0
    THEN Failed("check_tasks", <<>>)
    ELSE /\ issues' = check_all_task_implementations(tree, states, CheckRepos)
         /\ Done("check_tasks", gitversion_verdicts(tree, states, CheckRepos))

\* --search-task gitversion: the lines of a repository are printed after its
\* files are read
SearchGitversionTasks ==
  LET bad == bad_repo(tree, CheckRepos)
  IN  IF bad # 0
        THEN Failed("search_gitversion",
                    search_gitversion_tasks(tree, states, SubSeq(CheckRepos, 1, bad - 1)))
        ELSE /\ Done("search_gitversion",
                     search_gitversion_tasks(tree, states, CheckRepos))
             /\ UNCHANGED issues

\* --search-task <name>: the lines of a file are printed after it is read
SearchDefaultTask ==
  LET bad == bad_repo(tree, CheckRepos)
  IN  IF bad # 0
        THEN Failed("search_default",
                    search_default_task(read_before(tree, CheckRepos), states,
                                        SubSeq(CheckRepos, 1, bad), "copyfiles"))
        ELSE /\ Done("search_default",
                     search_default_task(tree, states, CheckRepos, "copyfiles"))
             /\ UNCHANGED issues

\* --analyze-tasks, from the scan on
CollectTaskUsage ==
  IF bad_repo(tree, CheckRepos) # 0
    THEN Failed("analyze_tasks", <<>>)
    ELSE /\ Done("analyze_tasks", collect_task_usage(tree, CheckRepos))
         /\ UNCHANGED issues

\* the task usage data of the report
CollectTaskUsageData ==
  IF bad_repo(tree, CheckRepos) # 0
    THEN Failed("usage_data", <<>>)
    ELSE /\ Done("usage_data", collect_task_usage_data(tree, CheckRepos))
         /\ UNCHANGED issues

\* --search <query>, from the scan on
SearchInPipelines ==
  /\ Done("search", search_in_pipelines(tree, CheckRepos))
  /\ UNCHANGED issues

NextCheck ==
  \/ CheckAllTaskImplementations
  \/ SearchGitversionTasks
  \/ SearchDefaultTask
  \/ CollectTaskUsage
  \/ CollectTaskUsageData
  \/ SearchInPipelines

SpecCheck == InitCheck /\ [][NextCheck]_vars

----------------------------------------------------------------------------
(* version_eq on given strings                                             *)

MaxParts == 3

Parts == {"0", "1", "01", "v1"}

\* The version strings compared: every string of up to MaxParts parts, the
\* empty string, numbers beyond u64, a pre-release version and two words.
VersionSet ==
  UNION {[1..n -> Parts] : n \in 1..MaxParts}
  \cup {<<"">>, <<TooBig>>, <<TooBig, "0">>, <<"1", "0", "0-rc">>,
        <<"invalid">>, <<"other">>}

InitVersion ==
  /\ mirrors = [d \in DirNames |-> Absent]
  /\ db = [creds |-> NoCredentials, repos |-> <<>>]
  /\ last = NoCall
  /\ cores = 1
  /\ Idle
  /\ states = <<>>
  /\ tree = [r \in {"r1", "r2"} |-> <<>>]
  /\ issues = NoIssues
  /\ call = NoRegistryCall
  /\ walk = NoWalk
  /\ cmp \in {[a |-> a, b |-> b, eq |-> FALSE, done |-> FALSE] :
                a \in VersionSet, b \in VersionSet}

\* a.version_eq(&b)
VersionEq ==
  /\ ~cmp.done
  /\ cmp' = [cmp EXCEPT !.eq = version_eq(cmp.a, cmp.b), !.done = TRUE]
  /\ UNCHANGED <<syncvars, batchvars, states, tree, issues, call, walk>>

NextVersion == VersionEq

SpecVersion == InitVersion /\ [][NextVersion]_vars

----------------------------------------------------------------------------
(* The valid_states table: add, list, delete and merge of a configuration  *)

MaxRows == 3

\* task.to_string() of the tasks given to the calls
RegistryNames == {"copyfiles", "CopyFiles", "gitversion"}

RegistryStates ==
  {Default(<<"1">>), Default(<<"1", "0">>),
   GitVersionState(<<"3">>, <<"3">>, <<"6", "0", "3">>),
   GitVersionState(<<"3">>, <<"3">>, <<"6", "0">>)}

\* The (task, state) arguments of --add-task-state and --delete-task-state: a
\* triple for gitversion, a version for any other task.
RegistryArgs ==
  {a \in RegistryNames \X RegistryStates :
     (a[1] = "gitversion") <=> (a[2].type = "Gitversion")}

\* str::to_lowercase on the task names of the model
to_lowercase(name) ==
  CASE name \in {"CopyFiles", "COPYFILES"} -> "copyfiles"
    [] name = "GitVersion" -> "gitversion"
    [] OTHER -> name

\* INSERT INTO valid_states (task, state_json) VALUES (?1, ?2)
add_valid_state(t, task, state) == Append(t, Row(task, state))

\* DELETE FROM valid_states WHERE task = ?1 AND state_json = ?2, with the
\* lowercased task name as ?1
delete_valid_state(t, task, state) ==
  SelectSeq(t, LAMBDA r : ~(/\ r.task = to_lowercase(task)
                            /\ r.state_json = serialize_state(state)))

\* One entry of other_tasks.
Entry(name, versions) == [name |-> name, versions |-> versions]

\* A Config: the gitversion states and the entries of the other_tasks map in
\* the order its iteration yields them.
Config(gitversion, other_tasks) ==
  [gitversion |-> gitversion, other_tasks |-> other_tasks]

ConfigSet ==
  {Config(g, o) :
     g \in {<<>>, <<GitVersionState(<<"3">>, <<"3">>, <<"6", "0", "3">>)>>},
     o \in {<<>>,
            <<Entry("copyfiles", <<>>)>>,
            <<Entry("copyfiles", << <<"1">> >>)>>,
            <<Entry("copyfiles", << <<"1">>, <<"1", "0">> >>)>>,
            <<Entry("CopyFiles", << <<"1", "0">> >>)>>,
            <<Entry("copyfiles", << <<"1">> >>), Entry("CopyFiles", << <<"1", "0">> >>)>>,
            <<Entry("CopyFiles", << <<"1", "0">> >>), Entry("copyfiles", << <<"1">> >>)>>}}

\* config.get_valid_states(&SupportedTask::Default(name))
get_valid_states(config, name) ==
  LET es == SelectSeq(config.other_tasks, LAMBDA e : e.name = name)
  IN  IF es = <<>> THEN <<>>
      ELSE [i \in 1..Len(es[1].versions) |-> Default(es[1].versions[i])]

\* the loop that adds the states of one task
RECURSIVE add_all(_, _, _)
add_all(t, task, sts) ==
  IF sts = <<>> THEN t
  ELSE add_all(add_valid_state(t, task, Head(sts)), task, Tail(sts))

\* the loop over other_tasks from entry i on: a task with versions has its
\* rows deleted (whatever their letter case) and its states added
RECURSIVE merge_other_tasks(_, _, _)
merge_other_tasks(t, config, i) ==
  IF i > Len(config.other_tasks) THEN t
  ELSE LET e == config.other_tasks[i]
       IN  merge_other_tasks(
             IF e.versions = <<>> THEN t
             ELSE add_all(SelectSeq(t, LAMBDA r : lower(r.task) # lower(e.name)),
                          e.name, get_valid_states(config, e.name)),
             config, i + 1)

merge_config_states(t, config) ==
  LET g == IF config.gitversion = <<>> THEN t
           ELSE add_all(SelectSeq(t, LAMBDA r : lower(r.task) # "gitversion"),
                        "gitversion", config.gitversion)
  IN  merge_other_tasks(g, config, 1)

\* TaskValidState::eq
state_eq(a, b) ==
  IF a.type = "Gitversion" /\ b.type = "Gitversion"
    THEN /\ version_eq(a.setup_version, b.setup_version)
         /\ version_eq(a.execute_version, b.execute_version)
         /\ version_eq(a.spec_version, b.spec_version)
  ELSE IF a.type = "Default" /\ b.type = "Default"
    THEN version_eq(a.v, b.v)
  ELSE FALSE

InitRegistry ==
  /\ mirrors = [d \in DirNames |-> Absent]
  /\ db = [creds |-> NoCredentials, repos |-> <<>>]
  /\ last = NoCall
  /\ cores = 1
  /\ Idle
  /\ NoCheck

RegistryFrame == UNCHANGED <<syncvars, batchvars, tree, issues, cmp, walk>>

AddValidState ==
  \E a \in RegistryArgs :
    /\ Len(states) < MaxRows
    /\ states' = add_valid_state(states, a[1], a[2])
    /\ call' = [kind |-> "add", task |-> a[1], state |-> a[2]]
    /\ RegistryFrame

ListValidStates ==
  \E task \in RegistryNames \cup {"COPYFILES", "GitVersion"} :
    /\ call' = [kind |-> "list", task |-> task,
                listed |-> list_valid_states(states, task)]
    /\ UNCHANGED states
    /\ RegistryFrame

\* follows: the call comes directly after add_valid_state of the same task
\* and state
DeleteValidState ==
  \E a \in RegistryArgs :
    /\ states' = delete_valid_state(states, a[1], a[2])
    /\ call' = [kind |-> "delete", task |-> a[1], state |-> a[2],
                follows |-> /\ call.kind = "add"
                            /\ call.task = a[1]
                            /\ call.state = a[2]]
    /\ RegistryFrame

\* before: the table before the call; again: the call comes directly after a
\* merge of the same configuration
MergeConfigStates ==
  \E config \in ConfigSet :
    /\ Len(merge_config_states(states, config)) <= MaxRows
    /\ states' = merge_config_states(states, config)
    /\ call' = [kind |-> "merge", config |-> config, before |-> states,
                again |-> call.kind = "merge" /\ call.config = config]
    /\ RegistryFrame

NextRegistry ==
  \/ AddValidState
  \/ ListValidStates
  \/ DeleteValidState
  \/ MergeConfigStates

SpecRegistry == InitRegistry /\ [][NextRegistry]_vars

----------------------------------------------------------------------------
(* find_pipeline_files: a blocking walker sends the matching paths through *)
(* a bounded channel to the caller, which collects them until the channel  *)
(* is closed.  The capacity, 1000 in the source, is scaled down; a walk    *)
(* has up to MaxFiles entries, more than the capacity.                     *)

Capacity == 2

MaxFiles == 5

\* The entries WalkDir yields: the extension of the path and whether its
\* string contains "pipeline".
EntrySet ==
  {[ext |-> "yml", pipeline |-> TRUE], [ext |-> "yaml", pipeline |-> TRUE],
   [ext |-> "yml", pipeline |-> FALSE], [ext |-> "txt", pipeline |-> TRUE]}

WalkSet == UNION {[1..n -> EntrySet] : n \in 0..MaxFiles}

\* path.extension() is yml or yaml, and the path contains "pipeline"
is_pipeline_file(e) == e.ext \in {"yml", "yaml"} /\ e.pipeline

\* entry.path().to_path_buf() of the i-th entry of the walk
PathOf(w, i) == [at |-> i, ext |-> w.entries[i].ext]

WalkFrame == UNCHANGED <<syncvars, batchvars, states, tree, issues, cmp, call>>

InitWalk ==
  /\ mirrors = [d \in DirNames |-> Cloned]
  /\ db = [creds |-> Credentials, repos |-> <<>>]
  /\ last = NoCall
  /\ cores = 1
  /\ Idle
  /\ states = <<>>
  /\ tree = [r \in {"r1", "r2"} |-> <<>>]
  /\ issues = NoIssues
  /\ cmp = NoCmp
  /\ call = NoRegistryCall
  /\ \E es \in WalkSet : walk = [NoWalk EXCEPT !.pc = "call", !.entries = es]

\* channel(1000), tx.clone() and spawn_blocking: the walker holds the clone.
SpawnWalker ==
  /\ walk.pc = "call"
  /\ walk' = [walk EXCEPT !.pc = "drop", !.tx = TRUE, !.walker = "walking"]
  /\ WalkFrame

\* One iteration of the walker's loop: a path that does not match is
\* skipped; a matching path is sent, and blocking_send parks the thread
\* while the channel is full.
WalkEntry ==
  /\ walk.walker = "walking"
  /\ walk.pos < Len(walk.entries)
  /\ IF ~is_pipeline_file(walk.entries[walk.pos + 1])
       THEN walk' = [walk EXCEPT !.pos = @ + 1]
       ELSE IF Len(walk.chan) < Capacity
         THEN walk' = [walk EXCEPT !.pos = @ + 1,
                                   !.chan = Append(@, PathOf(walk, walk.pos + 1))]
         ELSE walk' = [walk EXCEPT !.walker = "parked", !.waited = TRUE]
  /\ WalkFrame

\* The receiver made room: blocking_send completes.
SendParked ==
  /\ walk.walker = "parked"
  /\ Len(walk.chan) < Capacity
  /\ walk' = [walk EXCEPT !.pos = @ + 1, !.walker = "walking",
                          !.chan = Append(@, PathOf(walk, walk.pos + 1))]
  /\ WalkFrame

\* The iterator is exhausted: the closure ends and drops its sender.
WalkerFinish ==
  /\ walk.walker = "walking"
  /\ walk.pos = Len(walk.entries)
  /\ walk' = [walk EXCEPT !.walker = "finished"]
  /\ WalkFrame

\* drop(tx)
DropSender ==
  /\ walk.pc = "drop"
  /\ walk' = [walk EXCEPT !.pc = "recv", !.tx = FALSE]
  /\ WalkFrame

\* rx.recv().await returned Some(path): pipeline_files.push(path)
Receive ==
  /\ walk.pc = "recv"
  /\ walk.chan # <<>>
  /\ walk' = [walk EXCEPT !.chan = Tail(@), !.files = Append(@, Head(walk.chan))]
  /\ WalkFrame

\* A variant whose recv() returns None as soon as the channel is empty.
ReturnFiles_when_empty ==
  /\ walk.pc = "recv"
  /\ walk.chan = <<>>
  /\ walk' = [walk EXCEPT !.pc = "returned"]
  /\ WalkFrame

\* rx.recv().await returned None, the channel being empty and every sender
\* dropped: Ok(pipeline_files)
ReturnFiles ==
  /\ walk.pc = "recv"
  /\ walk.chan = <<>>
  /\ ~walk.tx /\ walk.walker = "finished"
  /\ walk' = [walk EXCEPT !.pc = "returned"]
  /\ WalkFrame

NextWalk ==
  \/ SpawnWalker
  \/ WalkEntry
  \/ SendParked
  \/ WalkerFinish
  \/ DropSender
  \/ Receive
  \/ ReturnFiles

SpecWalk == InitWalk /\ [][NextWalk]_vars

\* The blocking pool runs the walker and the runtime polls the caller.
FairWalk == SpecWalk /\ WF_vars(NextWalk)

----------------------------------------------------------------------------
(* Properties of the synchroniser *)

FallbackOrder == <<"develop", "main", "master">>

\* The entries of the last call's trace that ran command cmd.
Attempts(cmd) == SelectSeq(last.log, LAMBDA x : x.cmd = cmd)

AllFailed(a) == \A i \in 1..Len(a) : ~a[i].ok

InOrder(a) ==
  /\ Len(a) <= Len(FallbackOrder)
  /\ \A i \in 1..Len(a) :
       /\ a[i].arg = FallbackOrder[i]
       /\ i < Len(a) => ~a[i].ok

IsSync == last.op \in {"ensure_repo_exists", "ensure_repo_exists_new",
                       "ensure_repo_exists_no_update"}

\* The call ran the clone procedure / the update procedure.
IsClone == IsSync /\ last.log # <<>> /\ last.log[1].cmd = "create_dir_all"
IsConverge == last.op = "ensure_repo_exists" /\ last.present

\* C3: the fetches of a clone and the checkouts of a detached-HEAD recovery
\* are attempted in the order develop, main, master; a branch is attempted
\* only after all earlier ones failed and none after the first success.
C3_BranchFallbackOrder ==
  /\ InOrder(Attempts("fetch"))
  /\ InOrder(Attempts("checkout"))

C3_Witness ==
  /\ IsConverge
  /\ Len(Attempts("checkout")) = 2
  /\ Attempts("checkout")[2].ok

\* C4 (as claimed): a clone returns Ok exactly when every step exited with
\* status 0: init, config, remote add, the fetch of some fallback branch and
\* the checkout of the fetched branch.
C4_CloneFailsOnAnySubprocessFailure ==
  IsClone =>
    (last.res = "ok" <=>
       /\ \A c \in {"init", "config", "remote_add", "checkout_b"} :
             Attempts(c) # <<>> /\ ~AllFailed(Attempts(c))
       /\ ~AllFailed(Attempts("fetch")) /\ Attempts("fetch") # <<>>)

\* C5 (as claimed): clone-only on an existing mirror returns Ok at once and
\* runs no clone step.
C5_CloneOnlySkipsExistingMirror ==
  (last.op = "ensure_repo_exists_new" /\ last.present) =>
     (last.res = "ok" /\ last.log = <<>> /\ last.unchanged)

\* C5 (amended): clone-only does not look at the mirror directory: it always
\* runs the clone procedure from its first step, also on an existing mirror,
\* and returns Ok only after init, remote add and a fetch succeeded.
C5_CloneOnlyAlwaysClones ==
  last.op = "ensure_repo_exists_new" =>
     /\ IsClone
     /\ last.res = "ok" =>
          /\ \A c \in {"init", "config", "remote_add"} :
                Attempts(c) # <<>> /\ ~AllFailed(Attempts(c))
          /\ ~AllFailed(Attempts("fetch"))
          /\ Attempts("checkout_b") # <<>>

C5_Witness ==
  /\ last.op = "ensure_repo_exists_new" /\ last.present
  /\ Len(last.log) > 1

\* C6: ensure_repo_exists_no_update on an existing mirror returns Ok, starts
\* no command and leaves the mirror as it is; on an absent mirror it runs the
\* clone procedure.
C6_SkipIfPresent ==
  last.op = "ensure_repo_exists_no_update" =>
     /\ last.present => (last.res = "ok" /\ last.log = <<>> /\ last.unchanged)
     /\ ~last.present => IsClone

C6_Witness ==
  /\ last.op = "ensure_repo_exists_no_update" /\ last.present
  /\ last.res = "ok"

\* C7: when the fetch of all three branches fails, or the checkout of all
\* three fails, the call returns an error and the failed attempt is the last
\* command it ran.
C7_BranchNotFound ==
  /\ (Len(Attempts("fetch")) = 3 /\ AllFailed(Attempts("fetch"))) =>
        /\ last.res = "err"
        /\ last.log[Len(last.log)].cmd = "fetch"
        /\ Attempts("checkout_b") = <<>>
  /\ (Len(Attempts("checkout")) = 3 /\ AllFailed(Attempts("checkout"))) =>
        /\ last.res = "err"
        /\ last.log[Len(last.log)].cmd = "checkout"
        /\ Attempts("reset") = <<>> /\ Attempts("pull") = <<>>

C7_Witness ==
  /\ IsClone
  /\ Len(Attempts("fetch")) = 3 /\ AllFailed(Attempts("fetch"))

\* C8: a Converge call returns Ok only if the reset and the pull both exited
\* with status 0; a failed reset or pull makes it return an error, and no
\* pull follows a failed reset.
C8_ConvergeOutcome ==
  IsConverge =>
     /\ last.res = "ok" =>
          /\ Attempts("reset") # <<>> /\ ~AllFailed(Attempts("reset"))
          /\ Attempts("pull") # <<>> /\ ~AllFailed(Attempts("pull"))
     /\ (Attempts("reset") # <<>> /\ AllFailed(Attempts("reset"))) =>
          (last.res = "err" /\ Attempts("pull") = <<>>)
     /\ (Attempts("pull") # <<>> /\ AllFailed(Attempts("pull"))) =>
          last.res = "err"

C8_Witness ==
  /\ IsConverge
  /\ Attempts("reset") # <<>> /\ AllFailed(Attempts("reset"))

\* C9: a Converge call that directly follows a successful Converge call on
\* the same mirror, with the remote unchanged, succeeds and leaves the mirror
\* exactly as the first call left it.
C9_ConvergeIdempotent ==
  (IsConverge /\ last.again) => (last.res = "ok" /\ last.unchanged)

C9_Witness ==
  /\ IsConverge /\ last.again
  /\ Attempts("pull") # <<>>

\* C10: test_connection runs git ls-remote and nothing else, returns Ok
\* exactly when it exits with status 0, and changes no mirror and no row of
\* the store.
C10_TestConnectionFrame ==
  [][last'.op = "test_connection" =>
       /\ mirrors' = mirrors
       /\ db' = db
       /\ Len(last'.log) = 1
       /\ last'.log[1].cmd = "ls_remote"
       /\ (last'.res = "ok" <=> last'.log[1].ok)]_vars

C10_Witness ==
  /\ last.op = "test_connection"
  /\ last.res = "err"
  /\ ~last.present

\* The steps of the clone procedure in the order of clone_repo.
CloneSteps == <<"create_dir_all", "init", "config", "write", "remote_add",
                "fetch", "checkout_b">>

StepOf(cmd) == CHOOSE i \in 1..Len(CloneSteps) : CloneSteps[i] = cmd

\* The call had to run the clone procedure: clone-only, or no mirror
\* directory.
RanClone == last.op = "ensure_repo_exists_new" \/ (IsSync /\ ~last.present)

\* C31: a clone runs create directory, init, enable sparse checkout, write
\* the patterns, add remote, fetch (with fallback), checkout in this order,
\* each step only after the previous one succeeded; a fetch or a checkout
\* comes only after sparse checkout was enabled and the fixed pattern file
\* was written.
C31_CloneStepOrder ==
  RanClone =>
    /\ last.log # <<>>
    /\ last.log[1].cmd = CloneSteps[1]
    /\ \A i \in 1..Len(last.log) : last.log[i].cmd \in Range(CloneSteps)
    /\ \A i \in 1..(Len(last.log) - 1) :
         LET x == last.log[i]
             y == last.log[i + 1]
         IN  IF x.cmd = "fetch" /\ ~x.ok THEN y.cmd = "fetch"
             ELSE x.ok /\ StepOf(y.cmd) = StepOf(x.cmd) + 1
    /\ \A i \in 1..Len(last.log) :
         last.log[i].cmd \in {"fetch", "checkout_b"} =>
           /\ \E j \in 1..(i - 1) : last.log[j].cmd = "config" /\ last.log[j].ok
           /\ \E j \in 1..(i - 1) : last.log[j].cmd = "write" /\ last.log[j].ok
    /\ Attempts("fetch") # <<>> =>
         /\ mirrors[repo_dir(last.url)].sparse
         /\ mirrors[repo_dir(last.url)].patterns = sparse_patterns_clone

C31_Witness ==
  /\ RanClone
  /\ last.res = "ok"
  /\ Len(Attempts("fetch")) = 2
  /\ Attempts("checkout_b") # <<>>

\* The steps of the update procedure in the order of update_repo.
ConvergeSteps == <<"rev_parse", "checkout", "config", "write", "reset", "pull">>

ConvergeStepOf(cmd) ==
  CHOOSE i \in 1..Len(ConvergeSteps) : ConvergeSteps[i] = cmd

\* HEAD of the mirror is on a branch.
OnBranch(m) == m.head \in BranchSet

\* The trace log is the one of a Converge call on the mirror m that left the
\* mirror as m2.
ConvergeOrder(m, log, m2) ==
  /\ log # <<>>
  /\ log[1].cmd = "rev_parse"
  /\ \A i \in 1..Len(log) : log[i].cmd \in Range(ConvergeSteps)
  /\ \A i \in 1..(Len(log) - 1) :
       LET x == log[i]
           y == log[i + 1]
       IN  /\ ConvergeStepOf(y.cmd) >= ConvergeStepOf(x.cmd)
           /\ ConvergeStepOf(y.cmd) = ConvergeStepOf(x.cmd) =>
                 (x.cmd = "checkout" /\ ~x.ok)
           /\ (y.cmd # "checkout" /\ x.cmd # "rev_parse") => x.ok
           /\ y.cmd \in {"write", "reset", "pull"} =>
                 ConvergeStepOf(y.cmd) = ConvergeStepOf(x.cmd) + 1
  /\ (\E i \in 1..Len(log) : log[i].cmd = "checkout") => ~OnBranch(m)
  /\ (\E i \in 1..Len(log) : log[i].cmd = "write" /\ log[i].ok) =>
       m2.patterns = sparse_patterns_clone
  /\ (\E i \in 1..Len(log) : log[i].cmd \in {"reset", "pull"}) =>
       \/ OnBranch(m)
       \/ \E i \in 1..Len(log) : log[i].cmd = "checkout" /\ log[i].ok

\* C32: a Converge call determines the current branch, attempts the fallback
\* checkout only when HEAD is not on a branch, then re-asserts the sparse
\* setting and rewrites the pattern file with the patterns of the clone, then
\* resets, then pulls; reset and pull run only with HEAD on a branch.
C32_ConvergeStepOrder ==
  [][(last'.op = "ensure_repo_exists" /\ last'.present) =>
        ConvergeOrder(mirrors[repo_dir(last'.url)], last'.log,
                      mirrors'[repo_dir(last'.url)])]_vars

\* The mirror is a complete clone: initialised, with the remote, a fetched
\* branch and that branch checked out.
FullyCloned(m) ==
  /\ m.dir /\ m.git /\ m.remote
  /\ m.tracking # {}
  /\ m.head \in m.tracking
  /\ m.hrev > 0

\* C33 (as claimed): ensure_repo_exists and ensure_repo_exists_no_update
\* return Ok only on a mirror that is a complete clone; the directory a
\* failed clone left behind is never reported Ok.
C33_ReadyImpliesCloned ==
  (last.op \in {"ensure_repo_exists", "ensure_repo_exists_no_update"}
     /\ last.res = "ok") => FullyCloned(mirrors[repo_dir(last.url)])

----------------------------------------------------------------------------
(* Properties of the fan-outs *)

\* The ceiling of the current fan-out: the permits of its semaphore, and the
\* default ceiling (the host's core count) where the code creates none.
Ceiling == IF fan = "sync" THEN SyncPermits ELSE max_concurrent

\* Exactly one task failed and all the others succeeded.
OneFailed(i) ==
  /\ units[i].res = "err"
  /\ \A j \in 1..Len(units) : j # i => units[j].res = "ok"

\* C1 (as claimed): in every fan-out over repositories (repository
\* synchronisation, onboarding, search, task-usage collection) at most
\* Ceiling tasks are running at the same time.
C1_BoundedConcurrency == Cardinality(Running) <= Ceiling

\* C2 (as claimed): when one repository's synchronisation fails and the
\* others succeed, the command does not return an error, every handle was
\* consumed (one outcome per repository) and check-tasks has scanned every
\* other repository.
C2_FailureIsolation ==
  \A i \in 1..Len(units) :
    (/\ op.kind \in {"ensure", "check"} /\ fan = "sync" /\ pc = "done"
     /\ Len(units) >= 3 /\ OneFailed(i)) =>
       /\ result = "ok"
       /\ joined = Len(repos)
       /\ op.kind = "check" =>
            \A j \in 1..Len(repos) :
               j # i => \E k \in 1..Len(scanned) : scanned[k] = repos[j]


\* The candidates whose connection test succeeded, in test order.
Reachable == SelectSeq(cands, LAMBDA u : \E i \in 1..Len(tested) :
                                  tested[i] = [url |-> u, res |-> "ok"])

Started == {i \in 1..Len(units) : units[i].st # "idle"}

TwoPhase ==
  op.kind = "onboard" =>
    /\ Len(tested) <= Len(cands)
    /\ \A i \in 1..Len(tested) : tested[i].url = cands[i]
    /\ Started # {} => Len(tested) = Len(cands)
    /\ fan = "onboard" => repos = Reachable
    /\ \A i \in 1..Len(tested) :
         tested[i].res = "err" =>
           /\ \A j \in 1..Len(units) : repos[j] # tested[i].url
           /\ tested[i].url \notin Range(success)

\* C11: in batch onboarding the connection tests run in input order, no
\* clone or update starts before every candidate was tested, the clone phase
\* runs over exactly the candidates whose test succeeded, and a candidate
\* whose test failed is never cloned and never added to the repository list.
C11_TwoPhaseOnboarding ==
  [][/\ TwoPhase'
     /\ op.kind = "onboard" =>
          /\ pc = "test" => mirrors' = mirrors /\ db' = db
          /\ Range(db'.repos) \ Range(db.repos) \subseteq Range(Reachable)]_vars

C11_Witness ==
  /\ op.kind = "onboard" /\ pc = "done" /\ result = "ok"
  /\ \E i \in 1..Len(tested) : tested[i].res = "err"
  /\ \E i \in 1..Len(success) : success[i] \in Range(db.repos)
  /\ Len(cands) >= 3

\* The fan-outs that have a semaphore.
Gated == fan \in {"sync", "onboard", "search"}

AllReleased ==
  /\ \A i \in 1..Len(units) : units[i].st = "done"
  /\ permits = Ceiling

\* C12: in a fan-out with a semaphore every running task holds one permit
\* and a finished task, successful or not, holds none; every entry of the
\* list is eventually spawned and run, and all permits are free once every
\* task has ended.
C12_SlotReleaseAndAdmission ==
  /\ [](Gated => permits + Cardinality(Running) = Ceiling)
  /\ (Gated /\ pc = "spawn") ~> (Gated /\ AllReleased)

C12_Witness ==
  /\ fan = "sync" /\ Len(units) > SyncPermits
  /\ AllReleased
  /\ \E i \in 1..Len(units) : units[i].res = "err"
  /\ \E i \in 1..Len(units) : units[i].res = "ok"

\* C13 (as claimed): no two synchronisation tasks that are running at the
\* same time work on the same mirror directory.
C13_ExclusiveMirror ==
  fan \in {"sync", "onboard"} =>
    \A i \in Running, j \in Running :
      i # j => repo_dir(repos[i]) # repo_dir(repos[j])

\* A command that needs the credentials starts.
NeedsCredentials ==
  /\ pc = "idle" /\ pc' # "idle"
  /\ op'.kind \in {"ensure", "check", "search", "onboard", "add"}

\* C14: when the store has no credentials, ensure_all_repos_exist,
\* add_repository and batch onboarding return an error at once: no task is
\* spawned, no connection is tested, no mirror and no repository row is
\* created.
C14_MissingCredentialsFatal ==
  [][(NeedsCredentials /\ get_git_credentials(db) = NoCredentials) =>
       /\ pc' = "done" /\ result' = "err"
       /\ units' = <<>> /\ fan' = "none" /\ tested' = <<>>
       /\ mirrors' = mirrors /\ db' = db]_vars

C14_Witness ==
  /\ get_git_credentials(db) = NoCredentials
  /\ op.kind \in {"ensure", "onboard", "add"}
  /\ pc = "done" /\ result = "err"
  /\ db.repos # <<>>

\* C15 (as claimed): the per-repository results a concurrent search or a
\* batch onboarding has shown are in the order of the repository names.
C15_OrderedByRepositoryName ==
  (op.kind \in {"search", "onboard"} /\ pc = "done") =>
    \A i \in 1..Len(shown), j \in 1..Len(shown) :
      i < j => Rank(repo_name(shown[i])) <= Rank(repo_name(shown[j]))

----------------------------------------------------------------------------
(* Properties of the classification *)

Classified == op.kind = "check_tasks" /\ pc = "done" /\ result = "ok"

Searched == op.kind = "search_gitversion" /\ pc = "done" /\ result = "ok"

CopyfilesStates == list_valid_states(states, "copyfiles")

CopyfilesInvocations == Range(implementations(tree, CheckRepos, "copyfiles"))

RecordedInvalid(im) == Invalid("copyfiles", im) \in Range(issues.invalid_states)

\* C16 (as claimed): an invocation of a generic task that has valid states is
\* recorded in invalid_states exactly when no valid state has a version that
\* is version_eq to the invocation's version.
C16_GenericUsesVersionEq ==
  (Classified /\ CopyfilesStates # <<>>) =>
    \A im \in CopyfilesInvocations :
      ~RecordedInvalid(im) <=>
         \E i \in 1..Len(CopyfilesStates) :
            version_eq(CopyfilesStates[i].v, im.version)

\* C17 (as claimed): a generic task without valid states is recorded in
\* missing_states and none of its invocations in invalid_states; an
\* invocation @1 of a task with the valid state "1" is not recorded in
\* invalid_states.
C17_NoPolicyDefinedExclusive ==
  Classified =>
    \A im \in CopyfilesInvocations :
      /\ CopyfilesStates = <<>> =>
           "copyfiles" \in issues.missing_states /\ ~RecordedInvalid(im)
      /\ CopyfilesStates # <<>> => "copyfiles" \notin issues.missing_states
      /\ (Default(<<"1">>) \in Range(CopyfilesStates) /\ im.version = <<"1">>) =>
           ~RecordedInvalid(im)

GitversionStates == list_valid_states(states, "gitversion")

Complete(tr) == tr.setup.some /\ tr.execute.some /\ tr.spec.some

\* C18 (as claimed): a gitversion triple is shown as valid exactly when some
\* valid state has setup, execute and spec versions that are version_eq to
\* its members.
C18_TriplesUseVersionEq ==
  (Classified \/ Searched) =>
    \A k \in 1..Len(shown) :
      shown[k].ok <=>
        /\ Complete(shown[k].triple)
        /\ \E i \in 1..Len(GitversionStates) :
             /\ version_eq(GitversionStates[i].setup_version, shown[k].triple.setup.v)
             /\ version_eq(GitversionStates[i].execute_version, shown[k].triple.execute.v)
             /\ version_eq(GitversionStates[i].spec_version, shown[k].triple.spec.v)

\* r1 has one file: setup@3, versionSpec '6.0.3' within the lookahead, and
\* execute@e.
Scenario(e) ==
  /\ Len(tree["r1"]) = 1
  /\ \E n \in 0..(LookAhead - 1) : tree["r1"][1] = Spaced(n, e)

Configured(setup, execute, spec) ==
  GitVersionState(setup, execute, spec) \in Range(GitversionStates)

\* C19: a repository whose file has setup@3 followed within 10 lines by
\* versionSpec '6.0.3' and has execute@3 is shown as valid when the triple
\* (3, 3, 6.0.3) is a valid state; with execute@4 and no valid state
\* (3, 4, 6.0.3) it is shown as invalid.
C19_TripleScenarios ==
  (Classified \/ Searched) =>
    \A k \in 1..Len(shown) :
      shown[k].repo = "r1" =>
        /\ (Scenario(<<"3">>) /\ Configured(<<"3">>, <<"3">>, <<"6", "0", "3">>))
             => shown[k].ok
        /\ (Scenario(<<"4">>) /\ ~Configured(<<"3">>, <<"4">>, <<"6", "0", "3">>))
             => ~shown[k].ok

C19_Witness ==
  /\ Classified
  /\ tree["r1"] = <<Spaced(LookAhead - 1, <<"3">>)>>
  /\ Configured(<<"3">>, <<"3">>, <<"6", "0", "3">>)
  /\ \E k \in 1..Len(shown) : shown[k].repo = "r1" /\ shown[k].ok

\* C20: a gitversion observation without a setup version, an execute version
\* or a spec version is never shown as valid.
C20_MissingMembersNeverMatch ==
  (Classified \/ Searched) =>
    \A k \in 1..Len(shown) : ~Complete(shown[k].triple) => ~shown[k].ok

C20_Witness ==
  /\ Searched
  /\ Configured(<<"?">>, <<"?">>, <<"?">>)
  /\ \E k \in 1..Len(shown) :
       /\ shown[k].triple.execute.some /\ ~shown[k].triple.setup.some
       /\ ~shown[k].ok

----------------------------------------------------------------------------
(* Properties of the extraction *)

\* the lines of the file at a path
file_lines(path) == tree[path[1]][path[2]]

\* a line that declares the task name and is not a comment
Declares(l, name) == l.k = "task" /\ l.name = name /\ l.c = ""

\* the file has a setup task line of version setup that is followed, within
\* the 10 lines after it and before any further task: line, by a
\* specification field of value v
WithinBounds(lines, setup, v) ==
  \E i \in 1..Len(lines), j \in 1..Len(lines) :
    /\ lines[i].k = "task" /\ lines[i].name = Setup /\ lines[i].ver = setup
    /\ i < j /\ j <= i + LookAhead
    /\ lines[j].k = "spec" /\ lines[j].ver = v
    /\ \A m \in (i + 1)..(j - 1) : lines[m].k # "task"

\* C23 (as claimed): the specification of a shown triple is a specification
\* field that lies within the 10 lines after the setup task line that gave
\* the triple its setup version, with no task: line between the two; a field
\* beyond either bound is not used.
C23_LookaheadBounds ==
  (Classified \/ Searched) =>
    \A k \in 1..Len(shown) :
      shown[k].triple.spec.some =>
        WithinBounds(file_lines(shown[k].triple.file.v),
                     shown[k].triple.setup.v, shown[k].triple.spec.v)

\* the command of that kind has returned Ok
Returned(kind) == op.kind = kind /\ pc = "done" /\ result = "ok"

\* the file at the path has a line, not a comment, that declares the task
\* name at that version
FromLine(path, name, ver) ==
  \E i \in 1..Len(file_lines(path)) :
    Declares(file_lines(path)[i], name) /\ file_lines(path)[i].ver = ver

\* the file at the path has a setup task line and, after it, a specification
\* field of value v, neither of them a comment
FromSpecLine(path, v) ==
  \E i \in 1..Len(file_lines(path)), j \in 1..Len(file_lines(path)) :
    /\ Declares(file_lines(path)[i], Setup)
    /\ i < j
    /\ file_lines(path)[j].k = "spec" /\ file_lines(path)[j].c = ""
    /\ file_lines(path)[j].ver = v

\* C24 (as claimed): in check-tasks, the gitversion search, the task usage
\* analysis and the task usage data of the report, every invocation comes
\* from a line that is not a comment, and every specification of a triple
\* from a specification line that is not a comment and follows a setup line
\* that is not a comment.
C24_CommentLinesDiscarded ==
  /\ Classified =>
       /\ \A name \in DOMAIN issues.all_implementations :
            \A im \in Range(issues.all_implementations[name]) :
              FromLine(im.file_path, name, im.version)
       /\ \A k \in 1..Len(shown) :
            shown[k].triple.spec.some =>
              FromSpecLine(shown[k].triple.file.v, shown[k].triple.spec.v)
  /\ Searched =>
       \A k \in 1..Len(shown) :
         LET tr == shown[k].triple
         IN  /\ tr.setup.some => FromLine(tr.file.v, Setup, tr.setup.v)
             /\ tr.execute.some => FromLine(tr.file.v, Execute, tr.execute.v)
             /\ tr.spec.some => FromSpecLine(tr.file.v, tr.spec.v)
  /\ (Returned("analyze_tasks") \/ Returned("usage_data")) =>
       \A k \in 1..Len(shown) :
         FromLine(shown[k].impl.file_path, shown[k].task, shown[k].impl.version)

\* the invocations of the files that can be read are all in all_implementations
AllExtracted ==
  \A r \in DOMAIN tree : \A i \in 1..Len(tree[r]) : \A n \in 1..Len(tree[r][i]) :
    LET l == tree[r][i][n]
    IN  (l.k = "task" /\ l.c = "") =>
          /\ l.name \in DOMAIN issues.all_implementations
          /\ TaskImplementation(r, l.ver, <<r, i>>)
               \in Range(issues.all_implementations[l.name])

\* C25 (as claimed): with a pipeline file that cannot be read, check-tasks,
\* the searches and the usage analyses still return Ok, and check-tasks still
\* returns the invocations of every other file and repository.
C25_UnreadableFilesNonFatal ==
  pc = "done" =>
    /\ result = "ok"
    /\ op.kind = "check_tasks" => AllExtracted

\* the invocations of the task name that the list got has for the file i of
\* repository r are those of the file's lines that declare it, in line order
PerLine(got, r, i, name) ==
  LET mine == SelectSeq(got, LAMBDA im : im.file_path = <<r, i>>)
      want == SelectSeq(tree[r][i], LAMBDA l : Declares(l, name))
  IN  /\ Len(mine) = Len(want)
      /\ \A n \in 1..Len(want) :
           mine[n] = TaskImplementation(r, want[n].ver, <<r, i>>)

\* the invocations of a task name among the entries of task_map
usage_of(name) ==
  LET es == SelectSeq(shown, LAMBDA e : e.task = name)
  IN  [n \in 1..Len(es) |-> es[n].impl]

\* C26: in check-tasks and in the task usage analysis, every line of a file
\* that is not a comment and matches task: <name>@<version> yields exactly one
\* invocation with that name, version and file, in line order; a file
\* without such a line yields none.
C26_GenericExtraction ==
  \A r \in DOMAIN tree : \A i \in 1..Len(tree[r]) :
    \A name \in {"copyfiles", Setup, Execute} :
      /\ Classified =>
           PerLine(IF name \in DOMAIN issues.all_implementations
                     THEN issues.all_implementations[name] ELSE <<>>, r, i, name)
      /\ Returned("analyze_tasks") => PerLine(usage_of(name), r, i, name)

C26_Witness ==
  /\ Classified
  /\ tree["r1"][1] = <<TaskLine("copyfiles", <<"1">>, "#"),
                       TaskLine("copyfiles", <<"1">>, "")>>
  /\ Len(issues.all_implementations["copyfiles"]) = 1

\* C30: check_all_task_implementations, search_gitversion_tasks and
\* search_default_task leave the valid_states table, the repository list and
\* the credentials as they were.
C30_ValidationIsReadOnly ==
  [][op'.kind \in {"check_tasks", "search_gitversion", "search_default"}
       => /\ states' = states
          /\ db'.repos = db.repos
          /\ db'.creds = db.creds]_vars

C30_Witness ==
  /\ Classified
  /\ states # <<>>
  /\ issues.invalid_states # <<>>
  /\ \E k \in 1..Len(shown) : shown[k].ok

\* The occurrences of a gitversion task in the files of a repository: the
\* (file, line) positions of the lines, not comments, that declare it.
Occurrences(repo, name) ==
  {x \in (1..Len(tree[repo])) \X (1..LookAhead + 3) :
     /\ x[2] <= Len(tree[repo][x[1]])
     /\ Declares(tree[repo][x[1]][x[2]], name)}

LineAt(repo, x) == tree[repo][x[1]][x[2]]

\* The occurrences of the other task an occurrence is paired with: those of
\* its own file, and those of the repository when its file has none.
Partners(repo, x, name) ==
  LET same == {y \in Occurrences(repo, name) : y[1] = x[1]}
  IN  IF same # {} THEN same ELSE Occurrences(repo, name)

\* The (setup, execute, spec) combination of a setup occurrence s, with the
\* specification its own lookahead finds, and an execute occurrence e matches
\* a valid triple.
Matching(repo, s, e) ==
  gitversion_is_valid(
    list_valid_states(states, "gitversion"),
    [setup |-> Some(LineAt(repo, s).ver), execute |-> Some(LineAt(repo, e).ver),
     spec |-> look_ahead(tree[repo][s[1]], s[2] + 1, LookAhead), file |-> None])

\* C35 (as claimed): check-tasks reports a repository as valid only if every
\* setup occurrence and every execute occurrence of the repository belongs
\* to a combination that matches a valid triple.
C35_NoMaskingAcrossFiles ==
  Classified =>
    \A k \in 1..Len(shown) :
      shown[k].ok =>
        /\ \A s \in Occurrences(shown[k].repo, Setup) :
             \E e \in Partners(shown[k].repo, s, Execute) :
               Matching(shown[k].repo, s, e)
        /\ \A e \in Occurrences(shown[k].repo, Execute) :
             \E s \in Partners(shown[k].repo, e, Setup) :
               Matching(shown[k].repo, s, e)

\* The file of the triple has a setup task line of the triple's setup
\* version whose own lookahead finds the triple's specification (or none,
\* when the triple has none).
OwnSpec(tr) ==
  LET lines == file_lines(tr.file.v)
  IN  \E j \in 1..Len(lines) :
        /\ lines[j].k = "task" /\ lines[j].name = Setup
        /\ lines[j].ver = tr.setup.v
        /\ look_ahead(lines, j + 1, LookAhead) = tr.spec

\* C36 (as claimed): the specification of a shown triple is the one found by
\* the lookahead that starts at the setup line, in the same file, that gave
\* the triple its setup version.
C36_SpecAssociation ==
  (Classified \/ Searched) =>
    \A k \in 1..Len(shown) :
      shown[k].triple.setup.some => OwnSpec(shown[k].triple)

----------------------------------------------------------------------------
(* Properties of version_eq *)

\* v with zero parts appended up to three parts
pad(v) == v \o [i \in 1..(3 - Len(v)) |-> "0"]

\* a dotted string of up to three decimal numbers
NumericVersion(v) ==
  Len(v) \in 1..3 /\ \A i \in 1..Len(v) : v[i] \in Digits \ {""}

\* one of a and b is the zero-padded expansion of the other
Expansion(a, b) ==
  /\ NumericVersion(a) /\ NumericVersion(b)
  /\ pad(a) = pad(b)
  /\ \/ SubSeq(b, 1, Len(a)) = a
     \/ SubSeq(a, 1, Len(b)) = b

\* C21: version_eq(a, b) holds for all numeric version strings a and b of
\* which one is the zero-padded expansion of the other (N, N.0, N.0.0 and
\* N.M, N.M.0), in both argument orders.
C21_ZeroPaddedEquivalent ==
  (cmp.done /\ Expansion(cmp.a, cmp.b)) => cmp.eq

\* the numeric triple a string stands for, when it stands for one
NumericTriple(v) ==
  Len(v) \in 1..3 /\ \A i \in 1..Len(v) : v[i] \in Numerals

\* C22: when one of the two inputs does not normalise to a parsable numeric
\* triple, version_eq(a, b) holds exactly when a and b are the same string.
C22_FallbackIsLiteral ==
  (cmp.done /\ ~(NumericTriple(cmp.a) /\ NumericTriple(cmp.b)))
    => (cmp.eq <=> cmp.a = cmp.b)

C22_Witness ==
  /\ cmp.done
  /\ cmp.a = <<"invalid">>
  /\ cmp.b = <<"invalid">>
  /\ cmp.eq

\* a as a single-version state and as a triple of three equal members
AsDefault(a) == Default(a)

AsTriple(a) == GitVersionState(a, a, a)

\* C39: version_eq is reflexive, symmetric and transitive on all version
\* strings, parsable or not, and so is the equality of valid states that is
\* built on it; states of different shapes are never equal.
C39_VersionEqIsEquivalence ==
  cmp.done =>
    /\ version_eq(cmp.a, cmp.a)
    /\ cmp.a = cmp.b => cmp.eq
    /\ cmp.eq <=> version_eq(cmp.b, cmp.a)
    /\ cmp.eq => \A c \in VersionSet :
                   version_eq(cmp.b, c) => version_eq(cmp.a, c)
    /\ state_eq(AsDefault(cmp.a), AsDefault(cmp.b)) <=> cmp.eq
    /\ state_eq(AsTriple(cmp.a), AsTriple(cmp.b)) <=> cmp.eq
    /\ state_eq(AsDefault(cmp.a), AsDefault(cmp.b))
         <=> state_eq(AsDefault(cmp.b), AsDefault(cmp.a))
    /\ ~state_eq(AsDefault(cmp.a), AsTriple(cmp.b))

C39_Witness ==
  /\ cmp.done /\ cmp.eq
  /\ cmp.a = <<"1">>
  /\ cmp.b = <<"1", "0">>
  /\ version_eq(cmp.b, <<"1", "0", "0">>)
  /\ version_eq(cmp.a, <<"1", "0", "0">>)

----------------------------------------------------------------------------
(* Properties of the valid_states table *)

\* C27 (as claimed): after add_valid_state(task, state) the states listed for
\* the task contain, once, a state equal to the one added; after a directly
\* following delete_valid_state(task, state) they no longer contain it.
C27_RegistryRoundTrip ==
  /\ call.kind = "add" =>
       LET l == list_valid_states(states, call.task)
       IN  /\ \E i \in 1..Len(l) : state_eq(l[i], call.state)
           /\ Cardinality({i \in 1..Len(l) : l[i] = call.state}) = 1
  /\ (call.kind = "delete" /\ call.follows) =>
       call.state \notin Range(list_valid_states(states, call.task))

\* the spellings of one task name
CaseVariants ==
  {{"copyfiles", "CopyFiles", "COPYFILES"}, {"gitversion", "GitVersion"}}

\* C28: list_valid_states returns the same states for two task names that
\* differ only in letter case, whatever case the rows were stored with.
C28_CaseInsensitiveLookup ==
  call.kind = "list" =>
    \A g \in CaseVariants :
      call.task \in g =>
        \A other \in g : list_valid_states(states, other) = call.listed

C28_Witness ==
  /\ call.kind = "list"
  /\ call.task = "COPYFILES"
  /\ \E i \in 1..Len(states) : states[i].task = "CopyFiles"
  /\ \E i \in 1..Len(states) : states[i].task = "copyfiles"
  /\ Len(call.listed) = 2

\* the states the configuration gives to the task name
Given(config, name) ==
  IF name = "gitversion" THEN Range(config.gitversion)
  ELSE UNION {{Default(v) : v \in Range(e.versions)} :
                e \in {x \in Range(config.other_tasks) : x.name = name}}

\* the configuration gives states to a spelling of the task name
Configures(config, name) ==
  \E g \in CaseVariants : name \in g /\ \E n \in g : Given(config, n) # {}

\* C29 (as claimed): after merge_config_states(config) the states listed for
\* a task to which the configuration gives states are exactly those states;
\* the states of every other task are as before; a second merge of the same
\* configuration leaves the table as the first left it.
C29_ConfigMerge ==
  call.kind = "merge" =>
    /\ \A name \in RegistryNames :
         /\ Given(call.config, name) # {} =>
              Range(list_valid_states(states, name)) = Given(call.config, name)
         /\ ~Configures(call.config, name) =>
              list_valid_states(states, name)
                = list_valid_states(call.before, name)
    /\ call.again => states = call.before

----------------------------------------------------------------------------
(* Properties of the order of synchronisation and scan *)

\* check-tasks, the analysis and the search are past their synchronisation.
Scanning == pc = "scan" \/ fan = "search"

\* C37: in check-tasks, analysis and search the scan of the pipeline files
\* starts only when the synchronisation task of every repository has
\* completed and returned Ok, and a file is scanned only after that; after a
\* failed synchronisation the operation returns the error without a scan.
C37_SyncBeforeScan ==
  [][/\ (op.kind \in {"check", "ensure", "search"} /\ ~Scanning /\ Scanning') =>
          /\ fan = "sync"
          /\ Len(units) = Len(list_repositories(db))
          /\ \A i \in 1..Len(units) :
               units[i].st = "done" /\ units[i].res = "ok"
     /\ (op.kind \in {"check", "ensure", "search"} /\ scanned' # scanned) =>
          Scanning
     /\ (fan = "sync" /\ ~Scanning /\ result' = "err") =>
          (scanned' = <<>> /\ pc' = "done")]_vars

C37_Witness ==
  /\ op.kind = "check" /\ pc = "done" /\ result = "ok"
  /\ Len(scanned) >= 2
  /\ \A i \in 1..Len(units) : units[i].res = "ok"

----------------------------------------------------------------------------
(* Properties of the repository list *)

\* The step inserts url in the repositories table.
Inserts(url) == db' = add_repository_sync(db, url)

\* C34: the repository list changes only by the insertion of a URL whose
\* synchronisation returned Ok: in add_repository the call itself, in batch
\* onboarding a candidate whose connection test and whose clone both
\* succeeded; a failed add leaves the list as it was.
C34_RegistrationFollowsSync ==
  [][/\ db'.repos # db.repos =>
          \/ /\ op'.kind = "add" /\ result' = "ok"
             /\ Inserts(repos'[1])
          \/ /\ op.kind = "onboard"
             /\ \E i \in 1..Len(units) :
                  /\ units[i].res = "ok"
                  /\ [url |-> repos[i], res |-> "ok"] \in Range(tested)
                  /\ Inserts(repos[i])
     /\ (op'.kind = "add" /\ result' = "err") => db' = db]_vars

C34_Witness ==
  /\ op.kind = "onboard" /\ pc = "done"
  /\ success # <<>>
  /\ \A i \in 1..Len(success) : success[i] \in Range(db.repos)
  /\ \E i \in 1..Len(units) :
       /\ units[i].res = "err"
       /\ repos[i] \notin Range(db.repos)

----------------------------------------------------------------------------
(* Properties of find_pipeline_files *)

\* The matching paths of the first n entries, in walk order
RECURSIVE SentUpTo(_, _)
SentUpTo(w, n) ==
  IF n = 0 THEN <<>>
  ELSE IF is_pipeline_file(w.entries[n])
    THEN Append(SentUpTo(w, n - 1), PathOf(w, n))
    ELSE SentUpTo(w, n - 1)

WalkReturned == walk.pc = "returned"

WalkSafe ==
  /\ Len(walk.chan) <= Capacity
  /\ walk.files \o walk.chan = SentUpTo(walk, walk.pos)
  /\ WalkReturned =>
       /\ walk.files = SentUpTo(walk, Len(walk.entries))
       /\ walk.walker = "finished" /\ ~walk.tx /\ walk.chan = <<>>
  /\ ~WalkReturned => ENABLED NextWalk

\* C38: find_pipeline_files never deadlocks and terminates, whatever the
\* number of matching files, also beyond the channel's capacity; it returns
\* exactly the paths the walker sent, each matching path once and in walk
\* order, and only after the walker finished and every sender was dropped.
C38_WalkTerminatesWithAllPaths == []WalkSafe /\ <>WalkReturned

C38_Witness ==
  /\ WalkReturned
  /\ walk.waited
  /\ Len(walk.files) > Capacity
  /\ Len(walk.files) < Len(walk.entries)

----------------------------------------------------------------------------
(* Properties of the concurrent search *)

\* C40: search_in_pipelines_concurrent completes for every repository list,
\* the empty one included: once the synchronisation succeeded it returns Ok
\* (an error can only be the synchronisation's), and the results waiting in
\* the channel never exceed its capacity, the number of repositories.
C40_SearchCompletes ==
  /\ (op.kind = "search" /\ pc = "done") => result \in {"ok", "err"}
  /\ (op.kind = "search" /\ pc = "done" /\ result = "err") => fan # "search"
  /\ fan = "search" => Len(scanned) - joined <= Len(repos)

====
